---- MODULE Spec2Model ----
(***************************************************************************)
(* Model of the typing tracker (src/src/backend.rs, struct Backend).       *)
(*                                                                         *)
(* A char is modelled by a name (a string); len_utf8 and is_whitespace     *)
(* give its UTF-8 width and its White_Space property.  A String is the     *)
(* sequence of its chars; its byte length is the sum of their widths.      *)
(* A Len is a record [bytes, chars].                                       *)
(***************************************************************************)
EXTENDS Integers, Sequences, FiniteSets, TLC

VARIABLES text, typed, cursor, cursor_prev, errors, deleted_errors,
          panicked, lastOp, pre_push,
          screen_size, width, lines,
          state, previous_line, needs_full_render,
          pc, term, frame,
          chapter, book,
          args, ret

\* the fields of Backend, and the history of the calls made on it
backend_vars == <<text, typed, cursor, cursor_prev, errors, deleted_errors,
                  panicked, lastOp, pre_push>>

\* Dimensions::screen_size, Dimensions::width and ChapterDisplay::lines
layout_vars == <<screen_size, width, lines>>

\* Display::state and the render state of ChapterDisplay
display_vars == <<state, previous_line, needs_full_render>>

\* where main is, the terminal, and what the last key and the render pass
\* after it did
session_vars == <<pc, term, frame>>

\* Display::chapter and the table of contents of Display::book
select_vars == <<chapter, book>>

\* the arguments and the result of a function called on its own
call_vars == <<args, ret>>

\* all that a tracker on its own leaves alone
ui_vars == <<layout_vars, display_vars, session_vars, select_vars, call_vars>>

vars == <<backend_vars, layout_vars, display_vars, session_vars, select_vars, call_vars>>

(***************************************************************************)
(* Bounds of the model.                                                    *)
(***************************************************************************)
MaxTextLen == 3
MaxDeleted == 2
MaxWidth == 3
MaxOffset == 4

(***************************************************************************)
(* Characters.                                                             *)
(***************************************************************************)
\* U+2018, U+2019, U+201C, U+201D, U+00A0, U+00E9 and ASCII ones
Chars == {"a", "b", "sp", "nl", "apos", "quot",
          "lsquo", "rsquo", "ldquo", "rdquo", "nbsp", "eacute"}

\* the chars a canonical text is built from in Spec
TextChars == {"a", "nbsp"}

\* the chars a key press delivers in Spec
TypedChars == {"a", "sp", "eacute"}

len_utf8(c) ==
    CASE c \in {"lsquo", "rsquo", "ldquo", "rdquo"} -> 3
      [] c \in {"nbsp", "eacute"} -> 2
      [] OTHER -> 1

is_whitespace(c) == c \in {"sp", "nl", "nbsp"}

\* ALTERNATIVES: (typed char, expected chars it stands for), in table order
ALTERNATIVES ==
    << <<"apos", {"lsquo", "rsquo"}>>,
       <<"quot", {"ldquo", "rdquo"}>>,
       <<"sp",   {"nbsp"}>> >>

\* ALTERNATIVES.iter().find(|x| x.0 == got): index of the first entry, 0 if none
FindAlternative(got) ==
    LET hits == {i \in 1..Len(ALTERNATIVES) : ALTERNATIVES[i][1] = got}
    IN  IF hits = {} THEN 0 ELSE CHOOSE i \in hits : \A j \in hits : i <= j

\* the table looked up by the expected char instead of the typed one
chars_are_equal_symmetric(expected, got) ==
    IF expected = got THEN TRUE
    ELSE LET i == FindAlternative(got)
             j == FindAlternative(expected)
         IN  \/ i # 0 /\ expected \in ALTERNATIVES[i][2]
             \/ j # 0 /\ got \in ALTERNATIVES[j][2]

chars_are_equal_including_unicode_alternatives(expected, got) ==
    IF expected = got THEN TRUE
    ELSE LET i == FindAlternative(got)
         IN  IF i # 0 THEN expected \in ALTERNATIVES[i][2] ELSE FALSE

(***************************************************************************)
(* Strings and Len.                                                        *)
(***************************************************************************)
RECURSIVE ByteLen(_)
\* str.len(): the number of bytes of a string
ByteLen(s) == IF s = <<>> THEN 0 ELSE len_utf8(Head(s)) + ByteLen(Tail(s))

LenNew(bytes, chars) == [bytes |-> bytes, chars |-> chars]

\* Ord for Len compares the byte offsets only
LenLt(x, y) == x.bytes < y.bytes

\* str::is_char_boundary(b)
IsCharBoundary(s, b) == \E k \in 0..Len(s) : ByteLen(SubSeq(s, 1, k)) = b

\* the chars of s[..b], for b a char boundary of s
PrefixTo(s, b) ==
    LET k == CHOOSE k \in 0..Len(s) : ByteLen(SubSeq(s, 1, k)) = b
    IN  SubSeq(s, 1, k)

\* the chars of s[b..], for b a char boundary of s
SuffixFrom(s, b) ==
    LET k == CHOOSE k \in 0..Len(s) : ByteLen(SubSeq(s, 1, k)) = b
    IN  SubSeq(s, k + 1, Len(s))

RECURSIVE SeqsUpTo(_, _)
\* all sequences over S of length at most n
SeqsUpTo(S, n) ==
    IF n = 0 THEN {<<>>}
    ELSE LET shorter == SeqsUpTo(S, n - 1)
         IN  shorter \cup {Append(s, c) : s \in {t \in shorter : Len(t) = n - 1}, c \in S}

Texts == SeqsUpTo(TextChars, MaxTextLen)

(***************************************************************************)
(* History.  lastOp names the operation last called and whether it met its *)
(* boundary case; pre_push holds the tracker state before the last push    *)
(* that advanced the cursor, kept over the one pop directly following it.  *)
(***************************************************************************)
Snapshot == [typed |-> typed, cursor |-> cursor, errors |-> errors]

Record(op) ==
    /\ lastOp' = op
    /\ pre_push' =
         CASE op = "push" -> <<Snapshot>>
           [] op = "pop" /\ lastOp = "push" -> pre_push
           [] OTHER -> <<>>

Panic ==
    /\ panicked' = TRUE
    /\ UNCHANGED <<typed, cursor, cursor_prev, errors, deleted_errors>>

(***************************************************************************)
(* Backend::new                                                            *)
(***************************************************************************)
BackendNew(t) ==
    /\ text = t
    /\ typed = <<>>
    /\ cursor = LenNew(0, 0)
    /\ cursor_prev = LenNew(0, 0)
    /\ errors = <<>>
    /\ deleted_errors = <<>>

\* the terminal size main hands to Display::new
ViewWidth == 80
ViewHeight == 24

\* a tracker on its own: no layout has been built
NoLayout ==
    /\ screen_size = <<ViewWidth, ViewHeight>>
    /\ width = 1
    /\ lines = <<>>

\* the terminal before Display::enter
TermStart == [raw_mode |-> FALSE, acquired |-> FALSE, cleanups |-> 0, cursor |-> <<>>]

\* a KeyEvent: its code, the char of a Char code, and the CONTROL modifier
KeyWith(code, char, mods) == [code |-> code, char |-> char, mods |-> mods]

\* a key with no modifier, or with CONTROL alone
Key(code, char, ctrl) == KeyWith(code, char, IF ctrl THEN {"CONTROL"} ELSE {})

\* no key has been read and no render pass has run
NoFrame ==
    [key |-> Key("none", "", FALSE), mode |-> "ChapterSelect", calls |-> 0, renders |-> 0,
     path |-> "none", scroll |-> <<>>, clears |-> 0,
     exposed |-> <<>>, overlay |-> <<>>]

\* a book with chapters enough for its list to go past the last row of the
\* view below the first entry, each name one line long
SessionBook == [i \in 1..((ViewHeight - ViewHeight \div 2) \div 2 + 1) |-> 1]

\* Display::new, and main before display.enter
NoSession ==
    /\ state = "ChapterSelect"
    /\ previous_line = 0
    /\ needs_full_render = FALSE
    /\ pc = "enter"
    /\ term = TermStart
    /\ frame = NoFrame
    /\ chapter = 0
    /\ book = SessionBook

\* no function is called on its own
NoCall ==
    /\ args = <<>>
    /\ ret = <<>>

Init ==
    /\ \E t \in Texts : BackendNew(t)
    /\ panicked = FALSE
    /\ lastOp = "none"
    /\ pre_push = <<>>
    /\ NoLayout
    /\ NoSession
    /\ NoCall

(***************************************************************************)
(* Backend::clear_per_update_data                                          *)
(***************************************************************************)
\* truncate(1) in place of truncate(0)
clear_keep_first ==
    /\ ~panicked
    /\ Record(IF lastOp \in {"clear", "clear_again"} THEN "clear_again" ELSE "clear")
    /\ deleted_errors' = IF deleted_errors = <<>> THEN <<>> ELSE <<deleted_errors[1]>>
    /\ UNCHANGED <<text, typed, cursor, cursor_prev, errors, panicked>>

clear_per_update_data ==
    /\ ~panicked
    /\ Record(IF lastOp \in {"clear", "clear_again"} THEN "clear_again" ELSE "clear")
    /\ deleted_errors' = <<>>
    /\ UNCHANGED <<text, typed, cursor, cursor_prev, errors, panicked>>

(***************************************************************************)
(* Backend::push                                                           *)
(***************************************************************************)
\* push advancing the byte offset by the width of the typed char
push_typed_width(c) ==
    /\ ~panicked
    /\ Record(IF cursor.bytes < ByteLen(text) THEN "push" ELSE "push_at_end")
    /\ UNCHANGED text
    /\ IF ~IsCharBoundary(text, cursor.bytes)
       THEN Panic
       ELSE LET rest == SuffixFrom(text, cursor.bytes)
            IN  IF rest = <<>>
                THEN UNCHANGED <<typed, cursor, cursor_prev, errors,
                                 deleted_errors, panicked>>
                ELSE LET goal == Head(rest)
                     IN  /\ typed' = Append(typed, c)
                         /\ errors' =
                              IF ~chars_are_equal_including_unicode_alternatives(goal, c)
                              THEN Append(errors, cursor)
                              ELSE errors
                         /\ cursor_prev' = cursor
                         /\ cursor' = LenNew(cursor.bytes + len_utf8(c),
                                             cursor.chars + 1)
                         /\ UNCHANGED <<deleted_errors, panicked>>

\* push saving the previous cursor before it looks for the goal char
push_prev_first(c) ==
    /\ ~panicked
    /\ Record(IF cursor.bytes < ByteLen(text) THEN "push" ELSE "push_at_end")
    /\ UNCHANGED text
    /\ IF ~IsCharBoundary(text, cursor.bytes)
       THEN Panic
       ELSE LET rest == SuffixFrom(text, cursor.bytes)
            IN  IF rest = <<>>
                THEN /\ cursor_prev' = cursor
                     /\ UNCHANGED <<typed, cursor, errors, deleted_errors, panicked>>
                ELSE LET goal == Head(rest)
                     IN  /\ typed' = Append(typed, c)
                         /\ errors' =
                              IF ~chars_are_equal_including_unicode_alternatives(goal, c)
                              THEN Append(errors, cursor)
                              ELSE errors
                         /\ cursor_prev' = cursor
                         /\ cursor' = LenNew(cursor.bytes + len_utf8(goal),
                                             cursor.chars + 1)
                         /\ UNCHANGED <<deleted_errors, panicked>>

\* a correct char clearing the errors recorded so far
push_forgets_errors(c) ==
    /\ ~panicked
    /\ Record(IF cursor.bytes < ByteLen(text) THEN "push" ELSE "push_at_end")
    /\ UNCHANGED text
    /\ IF ~IsCharBoundary(text, cursor.bytes)
       THEN Panic                                  \* self.text[self.cursor.bytes..]
       ELSE LET rest == SuffixFrom(text, cursor.bytes)
            IN  IF rest = <<>>
                THEN UNCHANGED <<typed, cursor, cursor_prev, errors,
                                 deleted_errors, panicked>>
                ELSE LET goal == Head(rest)
                     IN  /\ typed' = Append(typed, c)
                         /\ errors' =
                              IF ~chars_are_equal_including_unicode_alternatives(goal, c)
                              THEN Append(errors, cursor)
                              ELSE <<>>
                         /\ cursor_prev' = cursor
                         /\ cursor' = LenNew(cursor.bytes + len_utf8(goal),
                                             cursor.chars + 1)
                         /\ UNCHANGED <<deleted_errors, panicked>>

\* the char offset advanced by the bytes of the canonical char
push_chars_by_bytes(c) ==
    /\ ~panicked
    /\ Record(IF cursor.bytes < ByteLen(text) THEN "push" ELSE "push_at_end")
    /\ UNCHANGED text
    /\ IF ~IsCharBoundary(text, cursor.bytes)
       THEN Panic
       ELSE LET rest == SuffixFrom(text, cursor.bytes)
            IN  IF rest = <<>>
                THEN UNCHANGED <<typed, cursor, cursor_prev, errors,
                                 deleted_errors, panicked>>
                ELSE LET goal == Head(rest)
                     IN  /\ typed' = Append(typed, c)
                         /\ errors' =
                              IF ~chars_are_equal_including_unicode_alternatives(goal, c)
                              THEN Append(errors, cursor)
                              ELSE errors
                         /\ cursor_prev' = cursor
                         /\ cursor' = LenNew(cursor.bytes + len_utf8(goal),
                                             cursor.chars + len_utf8(goal))
                         /\ UNCHANGED <<deleted_errors, panicked>>

push(c) ==
    /\ ~panicked
    /\ Record(IF cursor.bytes < ByteLen(text) THEN "push" ELSE "push_at_end")
    /\ UNCHANGED text
    /\ IF ~IsCharBoundary(text, cursor.bytes)
       THEN Panic                                  \* self.text[self.cursor.bytes..]
       ELSE LET rest == SuffixFrom(text, cursor.bytes)
            IN  IF rest = <<>>
                THEN UNCHANGED <<typed, cursor, cursor_prev, errors,
                                 deleted_errors, panicked>>
                ELSE LET goal == Head(rest)
                     IN  /\ typed' = Append(typed, c)
                         /\ errors' =
                              IF ~chars_are_equal_including_unicode_alternatives(goal, c)
                              THEN Append(errors, cursor)
                              ELSE errors
                         /\ cursor_prev' = cursor
                         /\ cursor' = LenNew(cursor.bytes + len_utf8(goal),
                                             cursor.chars + 1)
                         /\ UNCHANGED <<deleted_errors, panicked>>

(***************************************************************************)
(* Backend::delete_backwards_impl                                          *)
(***************************************************************************)
RECURSIVE PartitionSearch(_, _, _, _)
\* binary search of slice::partition_point with the predicate |&i| i < bound
PartitionSearch(s, bound, lo, hi) ==
    IF lo >= hi THEN lo
    ELSE LET mid == lo + (hi - lo) \div 2
         IN  IF LenLt(s[mid + 1], bound)
             THEN PartitionSearch(s, bound, mid + 1, hi)
             ELSE PartitionSearch(s, bound, lo, mid)

\* the partition point of the predicate |&i| i <= bound
partition_point_le(s, bound) ==
    Cardinality({i \in 1..Len(s) : s[i].bytes <= bound.bytes})

\* self.errors.partition_point(|&i| i < bound), a 0-based index
partition_point(s, bound) == PartitionSearch(s, bound, 0, Len(s))

\* deleted_errors overwritten by the drained entries
ReplaceDeleted(old, drained) == drained

\* what extend(drain(first..)) leaves in deleted_errors
ExtendDeleted(old, drained) == old \o drained

\* the partition point taken before the cursor is moved back
delete_backwards_impl_old_cursor(len, typedLen) ==
    IF typedLen.bytes > ByteLen(typed)
    THEN Panic
    ELSE IF ~IsCharBoundary(typed, ByteLen(typed) - typedLen.bytes)
    THEN Panic
    ELSE IF len.bytes > cursor.bytes \/ len.chars > cursor.chars
    THEN Panic
    ELSE LET newCursor == LenNew(cursor.bytes - len.bytes, cursor.chars - len.chars)
             first == partition_point(errors, cursor)
         IN  /\ typed' = PrefixTo(typed, ByteLen(typed) - typedLen.bytes)
             /\ cursor_prev' = cursor
             /\ cursor' = newCursor
             /\ errors' = SubSeq(errors, 1, first)
             /\ deleted_errors' =
                  ExtendDeleted(deleted_errors, SubSeq(errors, first + 1, Len(errors)))
             /\ UNCHANGED panicked

\* the previous cursor left as it was
delete_backwards_impl_keep_prev(len, typedLen) ==
    IF typedLen.bytes > ByteLen(typed)
    THEN Panic
    ELSE IF ~IsCharBoundary(typed, ByteLen(typed) - typedLen.bytes)
    THEN Panic
    ELSE IF len.bytes > cursor.bytes \/ len.chars > cursor.chars
    THEN Panic
    ELSE LET newCursor == LenNew(cursor.bytes - len.bytes, cursor.chars - len.chars)
             first == partition_point(errors, newCursor)
         IN  /\ typed' = PrefixTo(typed, ByteLen(typed) - typedLen.bytes)
             /\ UNCHANGED cursor_prev
             /\ cursor' = newCursor
             /\ errors' = SubSeq(errors, 1, first)
             /\ deleted_errors' =
                  ExtendDeleted(deleted_errors, SubSeq(errors, first + 1, Len(errors)))
             /\ UNCHANGED panicked

\* a deletion that drains no error
delete_backwards_impl_keep_errors(len, typedLen) ==
    IF typedLen.bytes > ByteLen(typed)
    THEN Panic
    ELSE IF ~IsCharBoundary(typed, ByteLen(typed) - typedLen.bytes)
    THEN Panic
    ELSE IF len.bytes > cursor.bytes \/ len.chars > cursor.chars
    THEN Panic
    ELSE LET newCursor == LenNew(cursor.bytes - len.bytes, cursor.chars - len.chars)
             first == partition_point(errors, newCursor)
         IN  /\ typed' = PrefixTo(typed, ByteLen(typed) - typedLen.bytes)
             /\ cursor_prev' = cursor
             /\ cursor' = newCursor
             /\ UNCHANGED <<errors, deleted_errors>>
             /\ UNCHANGED panicked

delete_backwards_impl(len, typedLen) ==
    IF typedLen.bytes > ByteLen(typed)
    THEN Panic                                \* self.typed.len() - typed.bytes
    ELSE IF ~IsCharBoundary(typed, ByteLen(typed) - typedLen.bytes)
    THEN Panic                                \* String::truncate
    ELSE IF len.bytes > cursor.bytes \/ len.chars > cursor.chars
    THEN Panic                                \* self.cursor -= len
    ELSE LET newCursor == LenNew(cursor.bytes - len.bytes, cursor.chars - len.chars)
             first == partition_point(errors, newCursor)
         IN  /\ typed' = PrefixTo(typed, ByteLen(typed) - typedLen.bytes)
             /\ cursor_prev' = cursor
             /\ cursor' = newCursor
             /\ errors' = SubSeq(errors, 1, first)
             /\ deleted_errors' =
                  ExtendDeleted(deleted_errors, SubSeq(errors, first + 1, Len(errors)))
             /\ UNCHANGED panicked

(***************************************************************************)
(* Backend::pop                                                            *)
(***************************************************************************)
\* pop handing the two lengths over in the wrong order
pop_swapped ==
    /\ ~panicked
    /\ Len(deleted_errors) < MaxDeleted
    /\ Record(IF typed = <<>> THEN "pop_empty" ELSE "pop")
    /\ UNCHANGED text
    /\ IF typed = <<>>
       THEN UNCHANGED <<typed, cursor, cursor_prev, errors, deleted_errors, panicked>>
       ELSE IF ~IsCharBoundary(text, cursor.bytes)
       THEN Panic
       ELSE LET before == PrefixTo(text, cursor.bytes)
            IN  IF before = <<>>
                THEN Panic
                ELSE delete_backwards_impl(
                         LenNew(len_utf8(typed[Len(typed)]), 1),
                         LenNew(len_utf8(before[Len(before)]), 1))

pop ==
    /\ ~panicked
    /\ Len(deleted_errors) < MaxDeleted
    /\ Record(IF typed = <<>> THEN "pop_empty" ELSE "pop")
    /\ UNCHANGED text
    /\ IF typed = <<>>
       THEN UNCHANGED <<typed, cursor, cursor_prev, errors, deleted_errors, panicked>>
       ELSE IF ~IsCharBoundary(text, cursor.bytes)
       THEN Panic                             \* self.text[..self.cursor.bytes]
       ELSE LET before == PrefixTo(text, cursor.bytes)
            IN  IF before = <<>>
                THEN Panic                    \* .chars().last().unwrap()
                ELSE delete_backwards_impl(
                         LenNew(len_utf8(before[Len(before)]), 1),
                         LenNew(len_utf8(typed[Len(typed)]), 1))

(***************************************************************************)
(* Backend::delete_word_backwards                                          *)
(***************************************************************************)
RECURSIVE TakeWhileWord_stop_at_ws(_, _, _)
\* a closure that ends the walk at the first whitespace char
TakeWhileWord_stop_at_ws(s, i, found) ==
    IF i = 0 THEN 0
    ELSE IF is_whitespace(s[i]) THEN 0
         ELSE 1 + TakeWhileWord_stop_at_ws(s, i - 1, TRUE)

RECURSIVE TakeWhileWord(_, _, _)
\* how many chars of s, walked from its end, the take_while closure accepts:
\* i chars are still to be looked at, found is found_nonwhitespace
TakeWhileWord(s, i, found) ==
    IF i = 0 THEN 0
    ELSE LET is_ws == is_whitespace(s[i])
             found2 == found \/ ~is_ws
         IN  IF found2 /\ is_ws THEN 0
             ELSE 1 + TakeWhileWord(s, i - 1, found2)

\* the first n chars of s in place of the last
LastN_from_start(s, n) == SubSeq(s, 1, n)

\* the last n chars of s
LastN(s, n) == SubSeq(s, Len(s) - n + 1, Len(s))

Min(x, y) == IF x <= y THEN x ELSE y

\* delete_word_backwards handing the two sums over in the wrong order
delete_word_swapped ==
    /\ ~panicked
    /\ Len(deleted_errors) < MaxDeleted
    /\ Record(IF typed = <<>> THEN "delete_word_empty" ELSE "delete_word")
    /\ UNCHANGED text
    /\ IF ~IsCharBoundary(text, cursor.bytes)
       THEN Panic
       ELSE LET before == PrefixTo(text, cursor.bytes)
                n == Min(TakeWhileWord(typed, Len(typed), FALSE), Len(before))
            IN  delete_backwards_impl(
                    LenNew(ByteLen(LastN(typed, n)), n),
                    LenNew(ByteLen(LastN(before, n)), n))

delete_word_backwards ==
    /\ ~panicked
    /\ Len(deleted_errors) < MaxDeleted
    /\ Record(IF typed = <<>> THEN "delete_word_empty" ELSE "delete_word")
    /\ UNCHANGED text
    /\ IF ~IsCharBoundary(text, cursor.bytes)
       THEN Panic                             \* self.text[..self.cursor.bytes]
       ELSE LET before == PrefixTo(text, cursor.bytes)
                \* zip ends with the shorter of the two iterators
                n == Min(TakeWhileWord(typed, Len(typed), FALSE), Len(before))
            IN  delete_backwards_impl(
                    LenNew(ByteLen(LastN(before, n)), n),
                    LenNew(ByteLen(LastN(typed, n)), n))

Next ==
    \/ \E c \in TypedChars : push(c) /\ UNCHANGED ui_vars
    \/ pop /\ UNCHANGED ui_vars
    \/ delete_word_backwards /\ UNCHANGED ui_vars
    \/ clear_per_update_data /\ UNCHANGED ui_vars

Spec == Init /\ [][Next]_vars

(***************************************************************************)
(* The same tracker over every one-char text and every typed char: the     *)
(* specification under which the match relation is checked.                *)
(***************************************************************************)
InitChars ==
    /\ \E e \in Chars : BackendNew(<<e>>)
    /\ panicked = FALSE
    /\ lastOp = "none"
    /\ pre_push = <<>>
    /\ NoLayout
    /\ NoSession
    /\ NoCall

NextChars ==
    \/ \E c \in Chars : push(c) /\ UNCHANGED ui_vars
    \/ pop /\ UNCHANGED ui_vars
    \/ delete_word_backwards /\ UNCHANGED ui_vars
    \/ clear_per_update_data /\ UNCHANGED ui_vars

SpecChars == InitChars /\ [][NextChars]_vars

(***************************************************************************)
(* textwrap::wrap(text, width) with its default options, as term.rs uses   *)
(* it.  Positions are char indexes into the text, counted from 0.  The     *)
(* text is split at every newline; a line shorter in bytes than the width  *)
(* is one fragment; any other line is cut into words (a run of non-space   *)
(* chars with the spaces after it), words wider than the width are broken, *)
(* and the words are packed into fragments none wider than the width.      *)
(* Every fragment is a sub-slice of the text with its trailing spaces cut. *)
(* Both the first-fit and the optimal-fit packing are among the wraps.     *)
(***************************************************************************)
\* the chars a chapter text is built from in the layout specifications
LayoutChars == {"a", "eacute", "sp", "nl"}

LayoutTexts == SeqsUpTo(LayoutChars, MaxTextLen)

\* the byte offset of char index i of t
BytesUpTo(t, i) == ByteLen(SubSeq(t, 1, i))

\* where the lines of t.split('\n') start
LineStarts(t) == {0} \cup {i \in 1..Len(t) : t[i] = "nl"}

\* where the line holding position p ends: at the next newline or the end
LineEnd(t, p) ==
    LET ends == {i \in p..Len(t) : i = Len(t) \/ t[i + 1] = "nl"}
    IN  CHOOSE i \in ends : \A j \in ends : i <= j

\* where the line holding position p starts
LineStartOf(t, p) ==
    LET starts == {i \in LineStarts(t) : i <= p}
    IN  CHOOSE i \in starts : \A j \in starts : j <= i

\* position e moved back over the spaces that end t[p..e]
TrimEnd(t, p, e) ==
    LET keep == {i \in p..e : \A j \in (i + 1)..e : t[j] = "sp"}
    IN  CHOOSE i \in keep : \A j \in keep : i <= j

\* where the words of the line starting at ls start: at its start and at
\* each char that is no space and follows a space
WordStarts(t, ls) ==
    {ls} \cup {i \in (ls + 1)..(LineEnd(t, ls) - 1) : t[i] = "sp" /\ t[i + 1] # "sp"}

\* where the word starting at a ends, the spaces after it included
WordEnd(t, ls, a) ==
    LET later == {i \in WordStarts(t, ls) \cup {LineEnd(t, ls)} : i > a}
    IN  CHOOSE i \in later : \A j \in later : i <= j

\* break_words: where the pieces of the word starting at a start
PieceStarts(t, ls, a, w) ==
    LET stop == TrimEnd(t, a, WordEnd(t, ls, a))
    IN  {a} \cup {i \in (a + 1)..(stop - 1) : (i - a) % w = 0}

\* the positions inside the lines of t at which a fragment may start
BreakCandidates(t, w) ==
    UNION { IF ByteLen(SubSeq(t, ls + 1, LineEnd(t, ls))) < w
            THEN {}
            ELSE UNION {PieceStarts(t, ls, a, w) : a \in WordStarts(t, ls)} \ {ls}
          : ls \in LineStarts(t) }

\* where the fragment starting at p ends, trailing spaces included, when the
\* fragments start at the positions of starts
FragmentEnd(t, starts, p) ==
    LET later == {i \in starts : i > p /\ i <= LineEnd(t, p)} \cup {LineEnd(t, p)}
    IN  CHOOSE i \in later : \A j \in later : i <= j

\* the sets of fragment starts whose fragments all fit the width
FittingStarts(t, w) ==
    {starts \in {LineStarts(t) \cup B : B \in SUBSET BreakCandidates(t, w)} :
        \A p \in starts :
            \/ TrimEnd(t, p, FragmentEnd(t, starts, p)) - p <= w
            \/ ByteLen(SubSeq(t, LineStartOf(t, p) + 1, LineEnd(t, p))) < w}

RECURSIVE SortedSeq(_)
\* the members of a set of numbers in ascending order
SortedSeq(S) ==
    IF S = {} THEN <<>>
    ELSE LET m == CHOOSE x \in S : \A y \in S : x <= y
         IN  <<m>> \o SortedSeq(S \ {m})

\* a fragment that keeps the spaces after its last word
Fragment_untrimmed(t, starts, p) ==
    [ptr |-> BytesUpTo(t, p),
     str |-> SubSeq(t, p + 1, FragmentEnd(t, starts, p))]

\* a fragment: the byte offset of its first byte from the first byte of the
\* text (what as_ptr() differences give) and its chars
Fragment(t, starts, p) ==
    [ptr |-> BytesUpTo(t, p),
     str |-> SubSeq(t, p + 1, TrimEnd(t, p, FragmentEnd(t, starts, p)))]

\* the results textwrap::wrap(t, w) may give
Wraps(t, w) ==
    { [i \in 1..Cardinality(starts) |-> Fragment(t, starts, SortedSeq(starts)[i])]
      : starts \in FittingStarts(t, w) }

(***************************************************************************)
(* ChapterDisplay::wrap_text                                               *)
(***************************************************************************)
\* the chars of t[b1..b2], for char boundaries b1 <= b2 of t
Slice(t, b1, b2) ==
    LET k1 == CHOOSE k \in 0..Len(t) : ByteLen(SubSeq(t, 1, k)) = b1
        k2 == CHOOSE k \in 0..Len(t) : ByteLen(SubSeq(t, 1, k)) = b2
    IN  SubSeq(t, k1 + 1, k2)

\* whether &t[b1..b2] is a slice the string allows
SliceOk(t, b1, b2) == b1 <= b2 /\ IsCharBoundary(t, b1) /\ IsCharBoundary(t, b2)

VirtualLine(line, start, end, separator_len, linebreak) ==
    [line |-> line, start |-> start, end |-> end,
     separator_len |-> separator_len, linebreak |-> linebreak]

\* a layout whose paragraph breaks take three line numbers
SeparatorKind_triple_step(separator) ==
    IF \E i \in 1..Len(separator) : separator[i] = "nl"
    THEN [linebreak |-> "Existing", step |-> 3]
    ELSE [linebreak |-> "Wrapped", step |-> 1]

\* a layout whose paragraph breaks take one line number like the wrapped ones
SeparatorKind_single_step(separator) ==
    IF \E i \in 1..Len(separator) : separator[i] = "nl"
    THEN [linebreak |-> "Existing", step |-> 1]
    ELSE [linebreak |-> "Wrapped", step |-> 1]

\* the kind of a separator and what it adds to line_number
SeparatorKind(separator) ==
    IF \E i \in 1..Len(separator) : separator[i] = "nl"
    THEN [linebreak |-> "Existing", step |-> 2]
    ELSE [linebreak |-> "Wrapped", step |-> 1]

\* a running sum that forgets the separator
Advance_no_separator(sum, line_len, separator_len) == sum + line_len

\* byte_sum += line.len() + separator_len.bytes, and the same for char_sum
Advance(sum, line_len, separator_len) == sum + line_len + separator_len

\* a last entry that claims a separator of one char
EofLine_with_separator(t, byte_sum, char_sum, line_number) ==
    VirtualLine(line_number,
                LenNew(byte_sum, char_sum),
                LenNew(ByteLen(t), char_sum + Len(SuffixFrom(t, byte_sum))),
                LenNew(1, 1),
                "Eof")

\* the entry pushed after the loop
EofLine(t, byte_sum, char_sum, line_number) ==
    VirtualLine(line_number,
                LenNew(byte_sum, char_sum),
                LenNew(ByteLen(t), char_sum + Len(SuffixFrom(t, byte_sum))),
                LenNew(0, 0),
                "Eof")

RECURSIVE WrapLoop(_, _, _, _, _, _, _)
\* the while loop over the pairs (wrapped[i], wrapped[i + 1]) and the push
\* after it; the result is the lines, or a panic
WrapLoop(t, wrapped, i, byte_sum, char_sum, line_number, acc) ==
    IF i + 1 > Len(wrapped)
    THEN IF ~IsCharBoundary(t, byte_sum)
         THEN [panic |-> TRUE, lines |-> acc]          \* text[byte_sum..]
         ELSE [panic |-> FALSE,
               lines |-> Append(acc, EofLine(t, byte_sum, char_sum, line_number))]
    ELSE LET line == wrapped[i].str
             line_chars == Len(line)
             end == byte_sum + ByteLen(line)
             next_start == wrapped[i + 1].ptr
         IN  IF next_start < 0 \/ next_start < end
             THEN [panic |-> TRUE, lines |-> acc]      \* usize subtraction
             ELSE IF ~SliceOk(t, end, next_start)
             THEN [panic |-> TRUE, lines |-> acc]      \* &text[end..next_start]
             ELSE LET len == next_start - end
                      separator == Slice(t, end, next_start)
                      kind == SeparatorKind(separator)
                      separator_len == LenNew(len, Len(separator))
                  IN  WrapLoop(t, wrapped, i + 1,
                               Advance(byte_sum, ByteLen(line), separator_len.bytes),
                               Advance(char_sum, line_chars, separator_len.chars),
                               line_number + kind.step,
                               Append(acc,
                                      VirtualLine(line_number,
                                                  LenNew(byte_sum, char_sum),
                                                  LenNew(end, char_sum + line_chars),
                                                  separator_len,
                                                  kind.linebreak)))

\* wrap_text for the fragments textwrap::wrap returned
wrap_text_of(t, wrapped) ==
    IF wrapped = <<>>
    THEN [panic |-> FALSE, lines |-> <<EofLine(t, 0, 0, 0)>>]
    ELSE WrapLoop(t, wrapped, 1, 0, 0, 0, <<>>)

\* the results of wrap_text(text, width)
wrap_text(t, w) == {wrap_text_of(t, wrapped) : wrapped \in Wraps(t, w)}

\* ChapterDisplay::enter: the lines of the chapter are laid out
layout ==
    /\ ~panicked
    /\ lines = <<>>
    /\ \E r \in wrap_text(text, width) :
          /\ lines' = IF r.panic THEN <<>> ELSE r.lines
          /\ panicked' = r.panic
    /\ UNCHANGED <<text, typed, cursor, cursor_prev, errors, deleted_errors,
                   lastOp, pre_push, screen_size, width>>
    /\ UNCHANGED <<display_vars, session_vars, select_vars>>

InitLayout ==
    /\ \E t \in LayoutTexts : BackendNew(t)
    /\ panicked = FALSE
    /\ lastOp = "none"
    /\ pre_push = <<>>
    /\ screen_size = <<ViewWidth, ViewHeight>>
    /\ width \in 1..MaxWidth
    /\ lines = <<>>
    /\ NoSession
    /\ NoCall

NextLayout == layout /\ UNCHANGED call_vars

SpecLayout == InitLayout /\ [][NextLayout]_vars

(***************************************************************************)
(* wrap_text over fragments that are no sub-slices of the text.            *)
(* textwrap::wrap returns Cow<str>; a fragment it does not borrow from the *)
(* text (an empty line given as a literal "") lies at an address that has  *)
(* nothing to do with the text, so next.as_ptr() - text.as_ptr() is any    *)
(* number, or an overflow of the subtraction (-1 here).                    *)
(***************************************************************************)
\* what next.as_ptr() as usize - text.as_ptr() as usize can give for such a
\* fragment
ForeignOffsets == -1..(MaxTextLen + 1)

\* the fragments of wrapped with every empty fragment somewhere else
Relocations(wrapped) ==
    {f \in [1..Len(wrapped) -> [ptr : ForeignOffsets \cup {wrapped[i].ptr : i \in 1..Len(wrapped)},
                                 str : {wrapped[i].str : i \in 1..Len(wrapped)}]] :
        \A i \in 1..Len(wrapped) :
            /\ f[i].str = wrapped[i].str
            /\ wrapped[i].str # <<>> => f[i].ptr = wrapped[i].ptr
            /\ wrapped[i].str = <<>> => f[i].ptr \in ForeignOffsets}

\* the results of textwrap::wrap with its empty fragments not borrowed
ForeignWraps(t, w) == UNION {Relocations(wrapped) : wrapped \in Wraps(t, w)}

\* ChapterDisplay::enter over such fragments
layout_foreign ==
    /\ ~panicked
    /\ lines = <<>>
    /\ \E wrapped \in ForeignWraps(text, width) :
          LET r == wrap_text_of(text, wrapped)
          IN  /\ lines' = IF r.panic THEN <<>> ELSE r.lines
              /\ panicked' = r.panic
    /\ UNCHANGED <<text, typed, cursor, cursor_prev, errors, deleted_errors,
                   lastOp, pre_push, screen_size, width>>
    /\ UNCHANGED <<display_vars, session_vars, select_vars>>

NextLayoutForeign == layout_foreign /\ UNCHANGED call_vars

SpecLayoutForeign == InitLayout /\ [][NextLayoutForeign]_vars

(***************************************************************************)
(* ChapterDisplay: where the cursor is on the screen.                      *)
(***************************************************************************)
\* u16::MAX
U16Max == 65535

\* Dimensions: screen_size.1, anchor.0 and anchor.1
screen_height == screen_size[2]
content_starting_col == screen_size[1] \div 2 - width \div 2
middle_row == screen_size[2] \div 2

Max(a, b) == IF a > b THEN a ELSE b
Abs(a) == IF a < 0 THEN 0 - a ELSE a
LenAdd(a, b) == LenNew(a.bytes + b.bytes, a.chars + b.chars)

RECURSIVE FlagSearch(_, _, _)
\* binary search of slice::partition_point over the answers of its predicate,
\* a 0-based index
FlagSearch(flags, lo, hi) ==
    IF lo >= hi THEN lo
    ELSE LET mid == lo + (hi - lo) \div 2
         IN  IF flags[mid + 1]
             THEN FlagSearch(flags, mid + 1, hi)
             ELSE FlagSearch(flags, lo, mid)

\* self.lines.partition_point(|e| e.end.chars < idx)
char_index_to_virtual_line(idx) ==
    FlagSearch([i \in 1..Len(lines) |-> lines[i].end.chars < idx], 0, Len(lines))

\* the column counted from the start of the text
to_virtual_from_text_start(c) ==
    LET y == char_index_to_virtual_line(c)
    IN  IF y >= Len(lines)
        THEN [panic |-> TRUE, x |-> 0, y |-> y]
        ELSE [panic |-> c > U16Max, x |-> c, y |-> y]

\* to_virtual: (x, y) of a char index, or the panic of lines[y], of the
\* subtraction or of the conversion to u16
to_virtual(c) ==
    LET y == char_index_to_virtual_line(c)
    IN  IF y >= Len(lines)
        THEN [panic |-> TRUE, x |-> 0, y |-> y]
        ELSE LET x == c - lines[y + 1].start.chars
             IN  [panic |-> x < 0 \/ x > U16Max, x |-> x, y |-> y]

\* the difference of the indexes in place of the line numbers
line_difference_by_index(current_line) == current_line - previous_line

\* line_difference
line_difference(current_line) ==
    lines[current_line + 1].line - lines[previous_line + 1].line

\* screen_lines(lo..hi): (index of the virtual line, row) of every line shown
\* in the rows lo..hi
screen_lines(lo, hi) ==
    LET start_bound == Min(lo, screen_height - 1)
        end_bound == Min(hi, screen_height)
        line == char_index_to_virtual_line(cursor.chars)
        cursor_vln == lines[line + 1].line
        top_of_screen_vln == cursor_vln - middle_row
        start_vln == Max(top_of_screen_vln + start_bound, 0)
        end_vln == Max(top_of_screen_vln + end_bound, 0)
        offset == Max(start_vln - top_of_screen_vln, 0)
        start == FlagSearch([i \in 1..Len(lines) |-> lines[i].line < start_vln],
                            0, Len(lines))
        \* take_while(|vl| vl.line < end_vln)
        count == Cardinality({i \in (start + 1)..Len(lines) :
                                 \A j \in (start + 1)..i : lines[j].line < end_vln})
    IN  [k \in 1..count |->
            [idx |-> start + k - 1,
             row |-> (lines[start + k].line - start_vln) + offset]]

\* render_range_in_line: what is written where, or the panic of the slice
render_range_in_line(sl, start, end, error) ==
    LET vl == lines[sl.idx + 1]
        line_len == LenNew(vl.end.bytes - vl.start.bytes, vl.end.chars - vl.start.chars)
        slice_end == IF end.bytes <= line_len.bytes THEN end ELSE line_len
        str == Slice(text, vl.start.bytes, vl.end.bytes)
    IN  IF ~SliceOk(str, start.bytes, slice_end.bytes)
        THEN [panic |-> TRUE, draw |-> <<>>]
        ELSE [panic |-> FALSE,
              draw |-> [row |-> sl.row,
                        col |-> content_starting_col + start.chars,
                        glyphs |-> Slice(str, start.bytes, slice_end.bytes),
                        terminator |-> IF end.bytes > slice_end.bytes
                                       THEN vl.linebreak ELSE "none",
                        error |-> error]]

\* render_line
render_line(sl) ==
    LET vl == lines[sl.idx + 1]
    IN  render_range_in_line(sl, LenNew(0, 0),
            LenNew(vl.end.bytes - vl.start.bytes + vl.separator_len.bytes,
                   vl.end.chars - vl.start.chars + vl.separator_len.chars),
            FALSE)

\* for line in self.screen_lines(range) { self.render_line(w, &line)?; }
render_lines(sls) ==
    [panic |-> \E k \in 1..Len(sls) : render_line(sls[k]).panic,
     draws |-> [k \in 1..Len(sls) |-> render_line(sls[k]).draw]]

(***************************************************************************)
(* ChapterDisplay::render_chapter and full_render_chapter                  *)
(***************************************************************************)
\* the overlay going through the first deleted error only
overlay_errors_first_deleted ==
    IF cursor.chars > cursor_prev.chars
    THEN IF errors = <<>>
         THEN <<>>
         ELSE LET e == SubSeq(errors, Len(errors), Len(errors))
              IN  IF e[1].bytes >= cursor_prev.bytes THEN <<e>> ELSE <<>>
    ELSE <<IF deleted_errors = <<>> THEN <<>> ELSE <<deleted_errors[1]>>>>

\* the errors the overlay goes through: <<>> for None, <<errs>> for Some(errs)
overlay_errors ==
    IF cursor.chars > cursor_prev.chars
    THEN IF errors = <<>>
         THEN <<>>
         ELSE LET e == SubSeq(errors, Len(errors), Len(errors))
              IN  IF e[1].bytes >= cursor_prev.bytes THEN <<e>> ELSE <<>>
    ELSE <<deleted_errors>>

RECURSIVE OverlayLoop(_, _, _, _, _, _)
\* 'outer: for line in self.screen_lines(range) { loop { .. } }, at the line
\* sls[k] and the error errs[cur]
OverlayLoop(sls, k, errs, cur, error, acc) ==
    IF k > Len(sls) \/ cur >= Len(errs)
    THEN [panic |-> FALSE, draws |-> acc]
    ELSE LET vl == lines[sls[k].idx + 1]
             end == LenAdd(vl.end, vl.separator_len)
             err == errs[cur + 1]
         IN  IF ~(err.chars < end.chars)
             THEN OverlayLoop(sls, k + 1, errs, cur, error, acc)
             ELSE IF err.bytes < vl.start.bytes \/ err.chars < vl.start.chars
             THEN [panic |-> TRUE, draws |-> acc]      \* err - line.line.start
             ELSE IF ~IsCharBoundary(text, err.bytes)
                     \/ SuffixFrom(text, err.bytes) = <<>>
             THEN [panic |-> TRUE, draws |-> acc]      \* text[err.bytes..], unwrap
             ELSE LET x == LenNew(err.bytes - vl.start.bytes,
                                  err.chars - vl.start.chars)
                      len == LenNew(len_utf8(Head(SuffixFrom(text, err.bytes))), 1)
                      r == render_range_in_line(sls[k], x, LenAdd(x, len), error)
                  IN  IF r.panic
                      THEN [panic |-> TRUE, draws |-> acc]
                      ELSE OverlayLoop(sls, k, errs, cur + 1, error,
                                       Append(acc, r.draw))

\* the error highlighting of render_chapter after a scroll of lines_scrolled
\* rows to the line y; a row below 0 is an overflow of the u16 subtraction
overlay(y, lines_scrolled) ==
    IF overlay_errors = <<>>
    THEN [panic |-> FALSE, draws |-> <<>>]
    ELSE IF y > previous_line /\ lines_scrolled > middle_row
    THEN [panic |-> TRUE, draws |-> <<>>]
    ELSE LET sls == IF y > previous_line
                    THEN screen_lines(middle_row - lines_scrolled, middle_row + 1)
                    ELSE screen_lines(middle_row, middle_row + lines_scrolled + 1)
         IN  OverlayLoop(sls, 1, overlay_errors[1], 0,
                         ~(cursor.chars < cursor_prev.chars), <<>>)

\* the rows a scroll of lines_scrolled rows has uncovered, drawn again
exposed_rows(y, lines_scrolled) ==
    IF lines_scrolled = 0
    THEN [panic |-> FALSE, draws |-> <<>>]
    ELSE IF y > previous_line
    THEN IF lines_scrolled > screen_height
         THEN [panic |-> TRUE, draws |-> <<>>]         \* bottom - lines_scrolled
         ELSE render_lines(screen_lines(screen_height - lines_scrolled, screen_height))
    ELSE render_lines(screen_lines(0, lines_scrolled))

\* the scroll command queued: none, ScrollUp(n) or ScrollDown(n)
scroll_command(y, lines_scrolled) ==
    IF lines_scrolled = 0
    THEN <<>>
    ELSE <<[dir |-> IF y > previous_line THEN "up" ELSE "down",
            rows |-> lines_scrolled]>>

\* render_chapter up to its flush: "full" for Ok(true), "panic", or "done"
\* with what it queued
render_chapter_pass ==
    IF needs_full_render
    THEN [result |-> "full"]
    ELSE LET v == to_virtual(cursor.chars)
         IN  IF v.panic
             THEN [result |-> "panic"]
             ELSE LET lines_scrolled == Abs(line_difference(v.y))
                  IN  IF lines_scrolled > U16Max
                      THEN [result |-> "full"]
                      ELSE LET ex == exposed_rows(v.y, lines_scrolled)
                               ov == IF ex.panic THEN ex ELSE overlay(v.y, lines_scrolled)
                           IN  IF ex.panic \/ ov.panic
                               THEN [result |-> "panic"]
                               ELSE [result |-> "done",
                                     x |-> v.x, y |-> v.y,
                                     scroll |-> scroll_command(v.y, lines_scrolled),
                                     exposed |-> ex.draws,
                                     overlay |-> ov.draws]

\* Display::cleanup
cleanup(t) == [t EXCEPT !.raw_mode = FALSE, !.cleanups = @ + 1]

\* a panic: the hook installed by Display::enter runs cleanup, then the
\* process ends
session_panic ==
    /\ pc' = "panic"
    /\ panicked' = TRUE
    /\ term' = cleanup(term)

\* a full repaint that leaves needs_full_render set
full_render_chapter_keep_flag ==
    LET v == to_virtual(cursor.chars)
        ex == render_lines(screen_lines(0, screen_height))
    IN  IF v.panic \/ ex.panic
        THEN /\ session_panic
             /\ UNCHANGED <<frame, needs_full_render>>
        ELSE /\ pc' = "read"
             /\ term' = [term EXCEPT !.cursor = <<content_starting_col + v.x, middle_row>>]
             /\ needs_full_render' = needs_full_render
             /\ frame' = [frame EXCEPT !.renders = @ + 1, !.path = "full",
                                       !.exposed = ex.draws]
             /\ UNCHANGED panicked

\* full_render_chapter
full_render_chapter ==
    LET v == to_virtual(cursor.chars)
        ex == render_lines(screen_lines(0, screen_height))
    IN  IF v.panic \/ ex.panic
        THEN /\ session_panic
             /\ UNCHANGED <<frame, needs_full_render>>
        ELSE /\ pc' = "read"
             /\ term' = [term EXCEPT !.cursor = <<content_starting_col + v.x, middle_row>>]
             /\ needs_full_render' = FALSE
             /\ frame' = [frame EXCEPT !.renders = @ + 1, !.path = "full",
                                       !.exposed = ex.draws]
             /\ UNCHANGED panicked

(***************************************************************************)
(* Display::full_render in chapter select: the list of the chapters.  A    *)
(* chapter of the book is the number of lines its name wraps to at the     *)
(* content width, and its depth is 0.                                      *)
(***************************************************************************)
\* Epub::chapter_count
chapter_count == Len(book)

\* Epub::chapter_by_toc_index: <<>> for None, <<n>> for Some of a chapter
\* whose name takes n lines
chapter_by_toc_index(idx) == IF idx < Len(book) THEN <<book[idx + 1]>> ELSE <<>>

\* usize::saturating_sub
saturating_sub(a, b) == IF a > b THEN a - b ELSE 0

RECURSIVE AboveLoop(_, _, _)
\* 'outer: while cur > 0 { cur -= 1; .. }: the entries above the selected
\* one, calls being the indexes given to chapter_by_toc_index so far
AboveLoop(cur, above, calls) ==
    IF ~(cur > 0)
    THEN [panic |-> FALSE, calls |-> calls]
    ELSE LET c == chapter_by_toc_index(cur - 1)
             called == Append(calls, cur - 1)
         IN  IF c = <<>>
             THEN [panic |-> TRUE, calls |-> called]           \* unwrap
             ELSE IF \E i \in 0..(c[1] - 1) : above <= 1 + i   \* break 'outer
             THEN [panic |-> FALSE, calls |-> called]
             ELSE AboveLoop(cur - 1, above - (c[1] + 1), called)

RECURSIVE BelowLoop(_, _, _)
\* 'outer: while cur < self.book.chapter_count() { cur += 1; .. }: the
\* entries below the selected one
BelowLoop(cur, below, calls) ==
    IF ~(cur < chapter_count)
    THEN [panic |-> FALSE, calls |-> calls]
    ELSE LET c == chapter_by_toc_index(cur + 1)
             called == Append(calls, cur + 1)
         IN  IF c = <<>>
             THEN [panic |-> TRUE, calls |-> called]           \* unwrap
             ELSE IF \E i \in 0..(c[1] - 1) : below + i >= screen_height
             THEN [panic |-> FALSE, calls |-> called]          \* break 'outer
             ELSE BelowLoop(cur + 1, below + c[1] + 1, called)

\* the ChapterSelect arm of full_render: the indexes it gives to
\* chapter_by_toc_index, and whether it panics, at an unwrap or where a
\* subtraction goes below 0 with the overflow checks on
full_render_select ==
    LET first == chapter_by_toc_index(chapter)
    IN  IF first = <<>>
        THEN [panic |-> TRUE, calls |-> <<chapter>>]
        ELSE LET line == middle_row - (first[1] - 1) \div 2
             IN  IF content_starting_col < 2 \/ line < 2
                 THEN [panic |-> TRUE, calls |-> <<chapter>>]
                 ELSE LET up == AboveLoop(chapter, line - 2, <<chapter>>)
                      IN  IF up.panic
                          THEN up
                          ELSE BelowLoop(chapter, line + first[1] + 1, up.calls)

(***************************************************************************)
(* Display::render                                                         *)
(***************************************************************************)
\* Display::render with every write to the terminal succeeding
render ==
    /\ pc = "render"
    /\ ~panicked
    /\ UNCHANGED <<layout_vars, state, select_vars>>
    /\ IF state = "ChapterSelect"
       THEN \* full_render draws the chapter list with the cursor hidden
            IF full_render_select.panic
            THEN /\ session_panic
                 /\ UNCHANGED <<text, typed, cursor, cursor_prev, errors,
                                deleted_errors, lastOp, pre_push,
                                previous_line, needs_full_render, frame>>
            ELSE /\ pc' = "read"
                 /\ term' = [term EXCEPT !.cursor = <<>>]
                 /\ frame' = [frame EXCEPT !.renders = @ + 1, !.path = "select"]
                 /\ UNCHANGED <<backend_vars, previous_line, needs_full_render>>
       ELSE LET r == render_chapter_pass
            IN  CASE r.result = "full" ->
                       /\ full_render_chapter
                       /\ UNCHANGED <<text, typed, cursor, cursor_prev, errors,
                                      deleted_errors, lastOp, pre_push, previous_line>>
                  [] r.result = "panic" ->
                       /\ session_panic
                       /\ UNCHANGED <<text, typed, cursor, cursor_prev, errors,
                                      deleted_errors, lastOp, pre_push,
                                      previous_line, needs_full_render, frame>>
                  [] r.result = "done" ->
                       /\ pc' = "read"
                       /\ term' = [term EXCEPT
                                     !.cursor = <<content_starting_col + r.x, middle_row>>]
                       /\ previous_line' = r.y
                       /\ clear_per_update_data
                       /\ frame' = [frame EXCEPT !.renders = @ + 1,
                                                 !.path = "incremental",
                                                 !.scroll = r.scroll,
                                                 !.clears = @ + 1,
                                                 !.exposed = r.exposed,
                                                 !.overlay = r.overlay]
                       /\ UNCHANGED needs_full_render

(***************************************************************************)
(* Display::handle_input and ChapterDisplay::handle_input                  *)
(***************************************************************************)
\* the key events of a session: a char key, Enter, Backspace, Ctrl+w, a key
\* with no binding, and Esc
Keys ==
    {Key("Char", "a", FALSE), Key("Enter", "", FALSE),
     Key("Backspace", "", FALSE), Key("Char", "w", TRUE), Key("F1", "", FALSE),
     Key("Esc", "", FALSE)}

\* the chars of the chapters of a session
SessionChars == {"a", "sp", "nl"}
SessionTexts == SeqsUpTo(SessionChars, MaxTextLen)

\* the frame of a key read in chapter mode that made calls calls on the
\* tracker
KeyFrame(e, calls) == [NoFrame EXCEPT !.key = e, !.mode = "Chapter", !.calls = calls]

\* a key map in which CONTROL with other modifiers deletes a word too
ChapterDisplay_handle_input_any_control(e) ==
    /\ CASE "CONTROL" \in e.mods
            /\ (e.code = "Backspace" \/ (e.code = "Char" /\ e.char = "w")) ->
              delete_word_backwards /\ frame' = KeyFrame(e, 1)
         [] e.code = "Backspace" -> pop /\ frame' = KeyFrame(e, 1)
         [] e.code = "Enter" -> push("nl") /\ frame' = KeyFrame(e, 1)
         [] e.code = "Char" -> push(e.char) /\ frame' = KeyFrame(e, 1)
         [] OTHER -> UNCHANGED backend_vars /\ frame' = KeyFrame(e, 0)
    /\ UNCHANGED <<layout_vars, display_vars>>

\* a key map in which a key with no binding deletes a char
ChapterDisplay_handle_input_pop_unbound(e) ==
    /\ CASE e.mods = {"CONTROL"}
            /\ (e.code = "Backspace" \/ (e.code = "Char" /\ e.char = "w")) ->
              delete_word_backwards /\ frame' = KeyFrame(e, 1)
         [] e.code = "Backspace" -> pop /\ frame' = KeyFrame(e, 1)
         [] e.code = "Enter" -> push("nl") /\ frame' = KeyFrame(e, 1)
         [] e.code = "Char" -> push(e.char) /\ frame' = KeyFrame(e, 1)
         [] OTHER -> pop /\ frame' = KeyFrame(e, 1)
    /\ UNCHANGED <<layout_vars, display_vars>>

\* ChapterDisplay::handle_input: the arms of the match in their order
ChapterDisplay_handle_input(e) ==
    /\ CASE e.mods = {"CONTROL"}
            /\ (e.code = "Backspace" \/ (e.code = "Char" /\ e.char = "w")) ->
              delete_word_backwards /\ frame' = KeyFrame(e, 1)
         [] e.code = "Backspace" -> pop /\ frame' = KeyFrame(e, 1)
         [] e.code = "Enter" -> push("nl") /\ frame' = KeyFrame(e, 1)
         [] e.code = "Char" -> push(e.char) /\ frame' = KeyFrame(e, 1)
         [] OTHER -> UNCHANGED backend_vars /\ frame' = KeyFrame(e, 0)
    /\ UNCHANGED <<layout_vars, display_vars>>

\* an entry that takes over the errors of the tracker before it
ChapterDisplay_enter_keep_errors ==
    \E t \in SessionTexts : \E r \in wrap_text(t, width) :
        /\ text' = t
        /\ typed' = <<>>
        /\ cursor' = LenNew(0, 0)
        /\ cursor_prev' = LenNew(0, 0)
        /\ errors' = errors
        /\ deleted_errors' = <<>>
        /\ lastOp' = "none"
        /\ pre_push' = <<>>
        /\ panicked' = r.panic
        /\ lines' = IF r.panic THEN <<>> ELSE r.lines
        /\ previous_line' = 0
        /\ needs_full_render' = TRUE
        /\ UNCHANGED <<screen_size, width>>

\* ChapterDisplay::enter: a new tracker over the text of the chapter, and
\* its layout
ChapterDisplay_enter ==
    \E t \in SessionTexts : \E r \in wrap_text(t, width) :
        /\ text' = t
        /\ typed' = <<>>
        /\ cursor' = LenNew(0, 0)
        /\ cursor_prev' = LenNew(0, 0)
        /\ errors' = <<>>
        /\ deleted_errors' = <<>>
        /\ lastOp' = "none"
        /\ pre_push' = <<>>
        /\ panicked' = r.panic
        /\ lines' = IF r.panic THEN <<>> ELSE r.lines
        /\ previous_line' = 0
        /\ needs_full_render' = TRUE
        /\ UNCHANGED <<screen_size, width>>

\* Display::handle_input
handle_input(e) ==
    IF e.code = "Esc"
    THEN /\ state' = "ChapterSelect"
         /\ frame' = [NoFrame EXCEPT !.key = e, !.mode = state]
         /\ UNCHANGED <<backend_vars, layout_vars, previous_line,
                        needs_full_render, select_vars>>
    ELSE IF state = "ChapterSelect"
    THEN /\ frame' = [NoFrame EXCEPT !.key = e, !.mode = "ChapterSelect"]
         /\ book' = book
         /\ CASE e.code = "Up" \/ (e.code = "Char" /\ e.char = "k") ->
                   /\ chapter' = saturating_sub(chapter, 1)
                   /\ UNCHANGED <<backend_vars, layout_vars, display_vars>>
              [] e.code = "Down" \/ (e.code = "Char" /\ e.char = "j") ->
                   /\ chapter' = Min(chapter + 1, saturating_sub(chapter_count, 1))
                   /\ UNCHANGED <<backend_vars, layout_vars, display_vars>>
              [] e.code = "Enter" ->
                   /\ chapter' = chapter
                   /\ IF chapter_by_toc_index(chapter) = <<>>
                      THEN \* unwrap
                           /\ panicked' = TRUE
                           /\ UNCHANGED <<text, typed, cursor, cursor_prev, errors,
                                          deleted_errors, lastOp, pre_push,
                                          layout_vars, display_vars>>
                      ELSE /\ ChapterDisplay_enter
                           /\ state' = "Chapter"
              [] OTHER ->
                   /\ chapter' = chapter
                   /\ UNCHANGED <<backend_vars, layout_vars, display_vars>>
    ELSE ChapterDisplay_handle_input(e) /\ UNCHANGED select_vars

(***************************************************************************)
(* main: display.enter, the loop over the key events, display.exit         *)
(***************************************************************************)
\* Display::enter with every call succeeding
enter ==
    /\ pc = "enter"
    /\ IF full_render_select.panic
       THEN \* the hook is set before full_render: cleanup runs
            /\ pc' = "panic"
            /\ panicked' = TRUE
            /\ term' = cleanup([term EXCEPT !.raw_mode = TRUE, !.acquired = TRUE])
            /\ UNCHANGED <<text, typed, cursor, cursor_prev, errors,
                           deleted_errors, lastOp, pre_push, frame>>
       ELSE /\ pc' = "read"
            /\ term' = [term EXCEPT !.raw_mode = TRUE, !.acquired = TRUE]
            /\ frame' = [frame EXCEPT !.path = "select"]
            /\ UNCHANGED backend_vars
    /\ UNCHANGED <<layout_vars, display_vars, select_vars>>

\* one turn of the loop up to display.render: Esc breaks, any other key goes
\* to handle_input
next_key_event(e) ==
    /\ pc = "read"
    /\ ~panicked
    /\ IF e.code = "Esc"
       THEN /\ pc' = "exit"
            /\ frame' = [NoFrame EXCEPT !.key = e, !.mode = state]
            /\ UNCHANGED <<backend_vars, layout_vars, display_vars, select_vars, term>>
       ELSE /\ handle_input(e)
            /\ pc' = IF panicked' THEN "panic" ELSE "render"
            /\ term' = IF panicked' THEN cleanup(term) ELSE term

\* main returns: the display, its tracker and its layout are dropped
main_returns ==
    /\ text' = <<>>
    /\ typed' = <<>>
    /\ cursor' = LenNew(0, 0)
    /\ cursor_prev' = LenNew(0, 0)
    /\ errors' = <<>>
    /\ deleted_errors' = <<>>
    /\ lastOp' = "none"
    /\ pre_push' = <<>>
    /\ lines' = <<>>
    /\ state' = "ChapterSelect"
    /\ previous_line' = 0
    /\ needs_full_render' = FALSE
    /\ UNCHANGED <<panicked, screen_size, width>>

\* Display::exit with every call succeeding, and main returning Ok
exit ==
    /\ pc = "exit"
    /\ pc' = "ok"
    /\ term' = cleanup(term)
    /\ main_returns
    /\ UNCHANGED frame

\* a call on the terminal fails: enter before or after raw mode is on,
\* render, or the cleanup of exit; the ? hands the error to main, which
\* returns it
io_error ==
    /\ pc \in {"enter", "render", "exit"}
    /\ pc' = "io_error"
    /\ term' = CASE pc = "enter" -> [term EXCEPT !.raw_mode = TRUE, !.acquired = TRUE]
                 [] pc = "render" -> term
                 [] pc = "exit" -> [term EXCEPT !.cleanups = @ + 1]
    /\ main_returns
    /\ UNCHANGED frame

\* enter fails before raw mode is on
io_error_early ==
    /\ pc = "enter"
    /\ pc' = "io_error"
    /\ UNCHANGED <<backend_vars, layout_vars, display_vars, term, frame>>

InitSession ==
    /\ BackendNew(<<>>)
    /\ panicked = FALSE
    /\ lastOp = "none"
    /\ pre_push = <<>>
    /\ screen_size = <<ViewWidth, ViewHeight>>
    /\ width \in 1..MaxWidth
    /\ lines = <<>>
    /\ NoSession
    /\ NoCall

NextSession ==
    \/ enter /\ UNCHANGED call_vars
    \/ \E e \in Keys : next_key_event(e) /\ UNCHANGED call_vars
    \/ render /\ UNCHANGED call_vars
    \/ exit /\ UNCHANGED <<select_vars, call_vars>>
    \/ io_error /\ UNCHANGED <<select_vars, call_vars>>
    \/ io_error_early /\ UNCHANGED <<select_vars, call_vars>>

SpecSession == InitSession /\ [][NextSession]_vars

(***************************************************************************)
(* Len: the comparisons of two values.                                     *)
(***************************************************************************)
\* #[derive(PartialEq, Eq)]: every field is compared
LenEq(x, y) == x.bytes = y.bytes /\ x.chars = y.chars

\* Ord::cmp for Len
LenCmp(x, y) ==
    IF x.bytes < y.bytes THEN "Less"
    ELSE IF x.bytes > y.bytes THEN "Greater" ELSE "Equal"

\* the values of Len::new(s.len(), s.chars().count()) over the strings s: a
\* char takes one to four bytes
Lens ==
    {l \in [bytes : 0..MaxOffset, chars : 0..MaxOffset] :
        l.chars <= l.bytes /\ l.bytes <= 4 * l.chars}

\* a == b, a < b, b < a and a.cmp(&b) of the two arguments
compare ==
    /\ args # <<>>
    /\ ret = <<>>
    /\ ret' = [eq |-> LenEq(args[1], args[2]),
               lt |-> LenLt(args[1], args[2]),
               gt |-> LenLt(args[2], args[1]),
               cmp |-> LenCmp(args[1], args[2])]
    /\ UNCHANGED <<args, backend_vars, layout_vars, display_vars, session_vars, select_vars>>

InitLen ==
    /\ BackendNew(<<>>)
    /\ panicked = FALSE
    /\ lastOp = "none"
    /\ pre_push = <<>>
    /\ NoLayout
    /\ NoSession
    /\ args \in Lens \X Lens
    /\ ret = <<>>

NextLen == compare

SpecLen == InitLen /\ [][NextLen]_vars

(***************************************************************************)
(* ChapterDisplay::screen_lines on its own: a chapter is laid out on a     *)
(* small terminal, chars are typed, and the lines of a row range are asked *)
(* for.                                                                    *)
(***************************************************************************)
MaxHeight == 3

\* the bounds of the row ranges handed to screen_lines
RowBounds == 0..(MaxHeight + 1)

\* self.screen_lines(lo..hi).collect()
screen_lines_call(lo, hi) ==
    /\ ~panicked
    /\ lines # <<>>
    /\ ret = <<>>
    /\ args' = <<lo, hi>>
    /\ IF char_index_to_virtual_line(cursor.chars) >= Len(lines)
       THEN /\ panicked' = TRUE                    \* self.lines[line]
            /\ ret' = [panic |-> TRUE, lines |-> <<>>]
       ELSE /\ ret' = [panic |-> FALSE, lines |-> screen_lines(lo, hi)]
            /\ UNCHANGED panicked
    /\ UNCHANGED <<text, typed, cursor, cursor_prev, errors, deleted_errors,
                   lastOp, pre_push>>
    /\ UNCHANGED <<layout_vars, display_vars, session_vars, select_vars>>

InitScreen ==
    /\ \E t \in SessionTexts : BackendNew(t)
    /\ panicked = FALSE
    /\ lastOp = "none"
    /\ pre_push = <<>>
    /\ screen_size \in {<<ViewWidth, h>> : h \in 1..MaxHeight}
    /\ width \in 1..MaxWidth
    /\ lines = <<>>
    /\ NoSession
    /\ NoCall

NextScreen ==
    \/ layout /\ UNCHANGED call_vars
    \/ lines # <<>> /\ ret = <<>> /\ push("a") /\ UNCHANGED ui_vars
    \/ \E lo, hi \in RowBounds : screen_lines_call(lo, hi)

SpecScreen == InitScreen /\ [][NextScreen]_vars

(***************************************************************************)
(* render_range_in_line: the attribute commands around the style runs.     *)
(* Backend::style_iter hands the range out as runs (style, len) that tile  *)
(* it; a run is given here by its style, a set of Style flags.             *)
(***************************************************************************)
MaxRuns == 3

\* Style: the flags of the bitmask
StyleFlags == {"ITALIC", "BOLD", "CENTER"}

\* the runs style_iter can yield for a range: <<>> for the empty range
StyleRuns == SeqsUpTo(SUBSET StyleFlags, MaxRuns)

SetAttribute(attr) == [cmd |-> "SetAttribute", attr |-> attr, run |-> 0]

\* the attributes that turn the flags of s off, and those that turn them on
AttributesOff(s) ==
    (IF "ITALIC" \in s THEN <<SetAttribute("NoItalic")>> ELSE <<>>)
        \o (IF "BOLD" \in s THEN <<SetAttribute("NormalIntensity")>> ELSE <<>>)

AttributesOn(s) ==
    (IF "ITALIC" \in s THEN <<SetAttribute("Italic")>> ELSE <<>>)
        \o (IF "BOLD" \in s THEN <<SetAttribute("Bold")>> ELSE <<>>)

\* the commands of one run when every flag of the run is turned on again
RunCommands_no_diff(cur_style, style, k) ==
    AttributesOff(cur_style \ style) \o AttributesOn(style)
        \o <<[cmd |-> "Write", attr |-> "", run |-> k]>>

\* the body of the loop for run k: the attributes for cur_style & !style and
\* for style & !cur_style, then the bytes of the run
RunCommands(cur_style, style, k) ==
    AttributesOff(cur_style \ style) \o AttributesOn(style \ cur_style)
        \o <<[cmd |-> "Write", attr |-> "", run |-> k]>>

RECURSIVE StyleLoop(_, _, _)
\* for (style, len) in style_iter(..), from run k on
StyleLoop(runs, k, cur_style) ==
    IF k > Len(runs)
    THEN <<>>
    ELSE RunCommands(cur_style, runs[k], k) \o StyleLoop(runs, k + 1, runs[k])

\* what render_range_in_line queues after the MoveTo, for a range that ends
\* inside the line: the loop from Style::empty(), then the Reset
range_commands(runs) == StyleLoop(runs, 1, {}) \o <<SetAttribute("Reset")>>

\* render_range_in_line over the runs of args
render_range_in_line_call ==
    /\ ret = <<>>
    /\ ret' = range_commands(args)
    /\ UNCHANGED <<args, backend_vars, layout_vars, display_vars, session_vars, select_vars>>

InitStyle ==
    /\ BackendNew(<<>>)
    /\ panicked = FALSE
    /\ lastOp = "none"
    /\ pre_push = <<>>
    /\ NoLayout
    /\ NoSession
    /\ args \in StyleRuns
    /\ ret = <<>>

NextStyle == render_range_in_line_call

SpecStyle == InitStyle /\ [][NextStyle]_vars

(***************************************************************************)
(* Undo: after any typing the caller deletes until the typed buffer is     *)
(* empty, with pop or with delete_word_backwards, a render pass's          *)
(* clear_per_update_data in between.  args holds the operation and the     *)
(* length of the typed buffer when the undo began, ret the deletions made. *)
(***************************************************************************)
UndoOps == {"pop", "delete_word_backwards"}

\* the caller turns to deleting
start_undo(op) ==
    /\ ~panicked
    /\ args = <<>>
    /\ args' = <<op, Len(typed)>>
    /\ ret' = <<0>>
    /\ UNCHANGED <<backend_vars, layout_vars, display_vars, session_vars, select_vars>>

\* one deletion of the undo
undo_step ==
    /\ args # <<>>
    /\ typed # <<>>
    /\ IF args[1] = "pop" THEN pop ELSE delete_word_backwards
    /\ ret' = <<ret[1] + 1>>
    /\ UNCHANGED <<args, layout_vars, display_vars, session_vars, select_vars>>

\* the clear_per_update_data of the render pass after a deletion
undo_clear ==
    /\ args # <<>>
    /\ deleted_errors # <<>>
    /\ clear_per_update_data
    /\ UNCHANGED ui_vars

NextUndo ==
    \/ args = <<>> /\ (\E c \in TypedChars : push(c)) /\ UNCHANGED ui_vars
    \/ args = <<>> /\ pop /\ UNCHANGED ui_vars
    \/ args = <<>> /\ delete_word_backwards /\ UNCHANGED ui_vars
    \/ args = <<>> /\ clear_per_update_data /\ UNCHANGED ui_vars
    \/ \E op \in UndoOps : start_undo(op)
    \/ undo_step
    \/ undo_clear

\* the caller goes on with the undo: the next deletion, or the pass before it
SpecUndo == Init /\ [][NextUndo]_vars /\ WF_vars(undo_step \/ undo_clear)

(***************************************************************************)
(* A session in a long chapter: one word of more than u16::MAX chars, laid *)
(* out one column wide, of which the user has typed the first m chars,     *)
(* each followed by its render pass, and has then pressed Ctrl+w.  The     *)
(* model starts where main is about to render after that key.              *)
(***************************************************************************)
MaxFar == 20

\* the chapter: a word of u16::MAX + 1 + MaxFar chars
LongText == [i \in 1..(U16Max + 1 + MaxFar) |-> "a"]

\* wrap_text(LongText, 1): a line for every char, with no separator
LongLines ==
    [k \in 1..(U16Max + 1 + MaxFar) |->
        VirtualLine(k - 1, LenNew(k - 1, k - 1), LenNew(k, k), LenNew(0, 0),
                    IF k = U16Max + 1 + MaxFar THEN "Eof" ELSE "Wrapped")]

\* how many chars of the word had been typed: a few, or so many that the
\* cursor was more than u16::MAX lines down
WordsTyped == 1..MaxTextLen \cup (U16Max + 2)..(U16Max + 1 + MaxFar)

\* main after handle_input(Ctrl+w) with m chars typed: the tracker after
\* delete_word_backwards, and the display as the pass at char m left it
AfterWordDeleted(t, ls, m) ==
    /\ text = t
    /\ typed = <<>>
    /\ cursor = LenNew(0, 0)
    /\ cursor_prev = LenNew(m, m)
    /\ errors = <<>>
    /\ deleted_errors = <<>>
    /\ panicked = FALSE
    /\ lastOp = "delete_word"
    /\ pre_push = <<>>
    /\ screen_size = <<ViewWidth, ViewHeight>>
    /\ width = 1
    /\ lines = ls
    /\ state = "Chapter"
    /\ previous_line = m - 1
    /\ needs_full_render = FALSE
    /\ pc = "render"
    /\ term = [TermStart EXCEPT !.raw_mode = TRUE, !.acquired = TRUE,
                                !.cursor = <<ViewWidth \div 2 + 1, ViewHeight \div 2>>]
    /\ frame = KeyFrame(Key("Char", "w", TRUE), 1)
    /\ chapter = 0
    /\ book = SessionBook
    /\ NoCall

InitLongChapter == \E m \in WordsTyped : AfterWordDeleted(LongText, LongLines, m)

\* the keys that make no call on the tracker
IdleKeys == {Key("F1", "", FALSE), Key("Esc", "", FALSE)}

NextLongChapter ==
    \/ render /\ UNCHANGED call_vars
    \/ \E e \in IdleKeys : next_key_event(e) /\ UNCHANGED call_vars
    \/ exit /\ UNCHANGED <<select_vars, call_vars>>

SpecLongChapter == InitLongChapter /\ [][NextLongChapter]_vars

(***************************************************************************)
(* Epub::traverse over the body of one document.  A document is the list   *)
(* of the nodes below body in document order, each with its depth, body    *)
(* being node 0 at depth 0; a text node is one that is not blank.  The log *)
(* holds the calls of the callback and the place where traverse_body       *)
(* bailed.                                                                 *)
(***************************************************************************)
MaxNodes == 3

\* text nodes, img, p/div/blockquote/br (here div) and any other tag (span)
NodeTags == {"text", "img", "div", "span"}
NodeIds == {"", "start", "end"}

BodyNode == [tag |-> "body", depth |-> 0, id |-> ""]

\* the nodes that can follow the node last in document order: a child of it
\* if last is an element that takes children, or a node further up
NextNodes(last) ==
    {n \in [tag : NodeTags, depth : 1..MaxNodes, id : NodeIds] :
        /\ n.depth <= last.depth + 1
        /\ n.depth = last.depth + 1 => last.tag \in {"body", "div", "span"}
        /\ n.tag = "text" => n.id = ""}

RECURSIVE DocsOfLen(_)
DocsOfLen(n) ==
    IF n = 0
    THEN {<<>>}
    ELSE UNION {{Append(d, x) :
                    x \in NextNodes(IF d = <<>> THEN BodyNode ELSE d[Len(d)])} :
                d \in DocsOfLen(n - 1)}

\* an id is on one node at most
IdsUnique(d) ==
    \A i, j \in 1..Len(d) : (i # j /\ d[i].id # "") => d[i].id # d[j].id

Docs(max) == {d \in UNION {DocsOfLen(n) : n \in 0..max} : IdsUnique(d)}

NodeAt(d, i) == IF i = 0 THEN BodyNode ELSE d[i]

\* the last node of the subtree of node i
SubEnd(d, i) ==
    LET later == {k \in (i + 1)..Len(d) : d[k].depth <= NodeAt(d, i).depth}
    IN  IF later = {}
        THEN Len(d)
        ELSE (CHOOSE k \in later : \A m \in later : k <= m) - 1

\* cb(content), for the node it is called for
Event(kind, i) == [kind |-> kind, node |-> i]

\* node.attribute("id") == end, for Some(end)
IsEnd(d, i, end) == end # "" /\ NodeAt(d, i).id = end

RECURSIVE traverse_body(_, _, _, _)
RECURSIVE RecurseFrom(_, _, _, _, _)

\* what traverse_body does with an element that is not the end: recurse,
\* its result dropped, and the Linebreak of p, div, blockquote and br
recurse_dropped(d, i, end, log) ==
    LET r == RecurseFrom(d, i, i + 1, end, log)
    IN  [stop |-> FALSE,
         log |-> IF NodeAt(d, i).tag = "div"
                 THEN Append(r.log, Event("Linebreak", i)) ELSE r.log]

\* fn recurse: for node in node.children(), from the node k on
RecurseFrom(d, i, k, end, log) ==
    IF k > SubEnd(d, i)
    THEN [stop |-> FALSE, log |-> log]
    ELSE IF d[k].depth # NodeAt(d, i).depth + 1
    THEN RecurseFrom(d, i, k + 1, end, log)
    ELSE LET r == traverse_body(d, k, end, log)
         IN  IF r.stop THEN r ELSE RecurseFrom(d, i, k + 1, end, r.log)

\* traverse_body: Ok(true) is stop
traverse_body(d, i, end, log) ==
    CASE NodeAt(d, i).tag = "text" ->
           [stop |-> FALSE, log |-> Append(log, Event("Text", i))]
      [] NodeAt(d, i).tag # "text" /\ IsEnd(d, i, end) ->
           [stop |-> TRUE, log |-> Append(log, Event("bail", i))]
      [] NodeAt(d, i).tag = "img" /\ ~IsEnd(d, i, end) ->
           [stop |-> FALSE, log |-> Append(log, Event("Image", i))]
      [] OTHER -> recurse_dropped(d, i, end, log)

RECURSIVE traverse_body_from_id(_, _, _, _, _)
RECURSIVE FromIdLoop(_, _, _, _, _, _, _)

\* for child in node.children() { match found { .. } }, from the node k on;
\* found is "none" for Ok(None), "true" and "false" for Ok(Some(found))
FromIdLoop(d, i, k, found, id, end, log) ==
    IF k > SubEnd(d, i)
    THEN [found |-> found, log |-> log]
    ELSE IF d[k].depth # NodeAt(d, i).depth + 1
    THEN FromIdLoop(d, i, k + 1, found, id, end, log)
    ELSE IF found = "true"
    THEN LET r == traverse_body(d, k, end, log)
         IN  IF r.stop
             THEN [found |-> "none", log |-> r.log]
             ELSE FromIdLoop(d, i, k + 1, found, id, end, r.log)
    ELSE LET r == traverse_body_from_id(d, k, id, end, log)
         IN  IF r.found = "none"
             THEN r
             ELSE FromIdLoop(d, i, k + 1, r.found, id, end, r.log)

\* traverse_body_from_id
traverse_body_from_id(d, i, id, end, log) ==
    IF NodeAt(d, i).id = id
    THEN LET r == traverse_body(d, i, end, log)
         IN  [found |-> IF r.stop THEN "none" ELSE "true", log |-> r.log]
    ELSE FromIdLoop(d, i, i + 1, "false", id, end, log)

\* Epub::traverse over the document that is the first and the last of the
\* chapter: the log of the callback
traverse(d, fragment, cutoff) ==
    IF fragment # ""
    THEN traverse_body_from_id(d, 0, fragment, cutoff, <<>>).log
    ELSE traverse_body(d, 0, cutoff, <<>>).log

\* a chapter of one document, from its beginning or from the fragment of
\* its entry, to the end of the document or to the fragment of the next
\* entry
InitTraverse ==
    /\ \E t \in {<<>>} : BackendNew(t)
    /\ panicked = FALSE
    /\ lastOp = "none"
    /\ pre_push = <<>>
    /\ NoLayout
    /\ NoSession
    /\ args \in {<<d, fragment, cutoff>> :
                   d \in Docs(MaxNodes), fragment \in {"", "start"}, cutoff \in {"", "end"}}
    /\ ret = <<>>

traverse_call ==
    /\ args # <<>>
    /\ ret = <<>>
    /\ ret' = <<traverse(args[1], args[2], args[3])>>
    /\ UNCHANGED <<args, backend_vars, layout_vars, display_vars, session_vars,
                   select_vars>>

NextTraverse == traverse_call

SpecTraverse == InitTraverse /\ [][NextTraverse]_vars

(***************************************************************************)
(* ChapterDisplay::handle_input on its own: keys with and without          *)
(* modifiers handed to the display of a chapter laid out one column wide,  *)
(* and the end of the pass that follows a key.                             *)
(***************************************************************************)
\* KeyModifiers of the keys
KeyMods == {{}, {"CONTROL"}, {"CONTROL", "SHIFT"}}

ModKeys ==
    {KeyWith("Backspace", "", m) : m \in KeyMods}
        \cup {KeyWith("Char", "w", m) : m \in KeyMods}
        \cup {Key("Char", "sp", FALSE), Key("Enter", "", FALSE),
              Key("Enter", "", TRUE), Key("F1", "", FALSE)}

\* the texts of the chapters: those of a session that begin with a word
KeyTexts == {t \in SessionTexts : t # <<>> => t[1] = "a"}

\* ChapterDisplay::handle_input(event)
chapter_key_event(e) ==
    /\ ChapterDisplay_handle_input(e)
    /\ UNCHANGED <<pc, term, select_vars, call_vars>>

\* a ChapterDisplay as ChapterDisplay::enter makes it
InitKeys ==
    /\ \E t \in KeyTexts : BackendNew(t)
    /\ panicked = FALSE
    /\ lastOp = "none"
    /\ pre_push = <<>>
    /\ screen_size = <<ViewWidth, ViewHeight>>
    /\ width = 1
    /\ \E r \in wrap_text(text, width) : ~r.panic /\ lines = r.lines
    /\ state = "Chapter"
    /\ previous_line = 0
    /\ needs_full_render = TRUE
    /\ pc = "read"
    /\ term = [TermStart EXCEPT !.raw_mode = TRUE, !.acquired = TRUE]
    /\ frame = NoFrame
    /\ chapter = 0
    /\ book = SessionBook
    /\ NoCall

NextKeys ==
    \/ \E e \in ModKeys : chapter_key_event(e)
    \/ clear_per_update_data /\ UNCHANGED ui_vars

SpecKeys == InitKeys /\ [][NextKeys]_vars

(***************************************************************************)
(* Display driven through handle_input alone: the loop hands every key,    *)
(* Esc too, to handle_input and goes on until it returns true.  ret is     *)
(* what the last call returned; args is whether the tracker held typed     *)
(* chars and errors when a chapter was last entered.                       *)
(***************************************************************************)
\* Ok(true) for Esc in either mode
handle_input_returns_any_esc(e) == e.code = "Esc"

\* the value of handle_input(e): Ok(true) for Esc in chapter select
handle_input_returns(e) == e.code = "Esc" /\ state = "ChapterSelect"

\* one turn of a loop that leaves when handle_input says so
display_key_event(e) ==
    /\ pc = "read"
    /\ ~panicked
    /\ handle_input(e)
    /\ ret' = <<handle_input_returns(e)>>
    /\ args' = IF state = "ChapterSelect" /\ e.code = "Enter"
               THEN <<typed # <<>>, errors # <<>>>>
               ELSE args
    /\ pc' = IF panicked' THEN "panic"
             ELSE IF handle_input_returns(e) THEN "exit" ELSE "render"
    /\ term' = IF panicked' THEN cleanup(term) ELSE term

\* Display::new at the widest content, and main before display.enter
InitDisplay ==
    /\ BackendNew(<<>>)
    /\ panicked = FALSE
    /\ lastOp = "none"
    /\ pre_push = <<>>
    /\ screen_size = <<ViewWidth, ViewHeight>>
    /\ width = MaxWidth
    /\ lines = <<>>
    /\ NoSession
    /\ NoCall

NextDisplay ==
    \/ enter /\ UNCHANGED call_vars
    \/ \E e \in Keys : display_key_event(e)
    \/ render /\ UNCHANGED call_vars
    \/ exit /\ UNCHANGED <<select_vars, call_vars>>
    \/ io_error /\ UNCHANGED <<select_vars, call_vars>>
    \/ io_error_early /\ UNCHANGED <<select_vars, call_vars>>

SpecDisplay == InitDisplay /\ [][NextDisplay]_vars

(***************************************************************************)
(* The chapter list on its own: main over books of a few chapters and      *)
(* views of a few rows, with the keys read while the list is shown.        *)
(***************************************************************************)
MaxChapters == 3
MaxNameLines == 2

\* the books: every list of up to MaxChapters chapters, none included
Books == UNION {[1..n -> 1..MaxNameLines] : n \in 0..MaxChapters}

\* the heights of the view, from the least at which the row two above the
\* middle one exists
SelectHeights == {h \in 1..(2 * MaxHeight + 2) : h \div 2 >= 2}

SelectKeys ==
    {Key("Up", "", FALSE), Key("Down", "", FALSE), Key("Char", "k", FALSE),
     Key("Char", "j", FALSE), Key("Enter", "", FALSE), Key("F1", "", FALSE),
     Key("Esc", "", FALSE)}

\* a key read while the chapter list is shown
select_key_event(e) ==
    /\ state = "ChapterSelect"
    /\ next_key_event(e)

InitSelect ==
    /\ BackendNew(<<>>)
    /\ panicked = FALSE
    /\ lastOp = "none"
    /\ pre_push = <<>>
    /\ screen_size \in {<<ViewWidth, h>> : h \in SelectHeights}
    /\ width = MaxWidth
    /\ lines = <<>>
    /\ state = "ChapterSelect"
    /\ previous_line = 0
    /\ needs_full_render = FALSE
    /\ pc = "enter"
    /\ term = TermStart
    /\ frame = NoFrame
    /\ chapter = 0
    /\ book \in Books
    /\ NoCall

NextSelect ==
    \/ enter /\ UNCHANGED call_vars
    \/ \E e \in SelectKeys : select_key_event(e) /\ UNCHANGED call_vars
    \/ render /\ UNCHANGED call_vars
    \/ exit /\ UNCHANGED <<select_vars, call_vars>>
    \/ io_error /\ UNCHANGED <<select_vars, call_vars>>
    \/ io_error_early /\ UNCHANGED <<select_vars, call_vars>>

SpecSelect == InitSelect /\ [][NextSelect]_vars

(***************************************************************************)
(* Properties of the tracker.                                              *)
(***************************************************************************)
\* the canonical char at position pos of the text
CharAt(pos) == Head(SuffixFrom(text, pos.bytes))

\* the match relation as the specification words it: typed against expected
MatchRelation(expected, got) ==
    \/ got = expected
    \/ got = "apos" /\ expected \in {"lsquo", "rsquo"}
    \/ got = "quot" /\ expected \in {"ldquo", "rdquo"}
    \/ got = "sp" /\ expected = "nbsp"

\* the entries of errors at or after position pos, in the order of errors
ErrorsFrom(pos) == SelectSeq(errors, LAMBDA e : e.bytes >= pos.bytes)

\* the entries of errors before position pos, in the order of errors
ErrorsBefore(pos) == SelectSeq(errors, LAMBDA e : e.bytes < pos.bytes)

\* the length of the longest run of whitespace chars at the end of s
TrailingWs(s) ==
    CHOOSE n \in 0..Len(s) :
        /\ \A i \in (Len(s) - n + 1)..Len(s) : is_whitespace(s[i])
        /\ n < Len(s) => ~is_whitespace(s[Len(s) - n])

\* the length of the longest run of non-whitespace chars at the end of s
TrailingWord(s) ==
    CHOOSE n \in 0..Len(s) :
        /\ \A i \in (Len(s) - n + 1)..Len(s) : ~is_whitespace(s[i])
        /\ n < Len(s) => is_whitespace(s[Len(s) - n])

\* the chars of the trailing whitespace run and of the word before it
WordRun(s) ==
    LET ws == TrailingWs(s)
    IN  ws + TrailingWord(SubSeq(s, 1, Len(s) - ws))

\* C1: in every reachable state the typed buffer holds as many chars as
\* cursor.chars says
C1_TypedCharsEqualCursorChars == Len(typed) = cursor.chars

\* C1 witness: a word deletion has left typed chars whose byte length differs
\* from the cursor's byte offset
C1_Witness ==
    /\ lastOp = "delete_word"
    /\ typed # <<>>
    /\ ByteLen(typed) # cursor.bytes
    /\ Len(typed) = cursor.chars

\* C2: the error list is strictly ascending by position and every entry lies
\* strictly before the cursor
C2_ErrorsAscendingBelowCursor ==
    /\ \A i \in 1..Len(errors) :
          /\ errors[i].bytes < cursor.bytes
          /\ errors[i].chars < cursor.chars
    /\ \A i, j \in 1..Len(errors) :
          i < j => /\ errors[i].bytes < errors[j].bytes
                   /\ errors[i].chars < errors[j].chars

\* C2 witness: a pop has drained an error and left two behind
C2_Witness ==
    /\ lastOp = "pop"
    /\ Len(errors) = 2
    /\ deleted_errors # <<>>

\* C3: a pop directly after a push that advanced the cursor restores typed
\* buffer, cursor and error list to their values before the push
C3_PushPopRoundTrip ==
    (lastOp = "pop" /\ pre_push # <<>>) => Snapshot = pre_push[1]

\* C3 witness: a mismatched push on a two-byte canonical char was undone, with
\* an earlier error and typed char kept
C3_Witness ==
    /\ lastOp = "pop"
    /\ pre_push # <<>>
    /\ errors # <<>>
    /\ deleted_errors # <<>>
    /\ cursor_prev.bytes = cursor.bytes + 2

\* C4: a push with the cursor before the end of the text appends the typed
\* char, saves the cursor as previous cursor, advances the cursor by the
\* canonical char's width and one char, and appends the old cursor to the
\* error list exactly when the typed char does not match, leaving the error
\* list unchanged otherwise
C4_PushEffect ==
    [][lastOp' = "push" =>
         \E c \in Chars :
            /\ typed' = Append(typed, c)
            /\ cursor_prev' = cursor
            /\ cursor' = LenNew(cursor.bytes + len_utf8(CharAt(cursor)),
                                cursor.chars + 1)
            /\ errors' = IF MatchRelation(CharAt(cursor), c)
                         THEN errors
                         ELSE Append(errors, cursor)]_vars

\* C4 witness: a push over a two-byte canonical char recorded an error at the
\* position the cursor had
C4_Witness ==
    /\ lastOp = "push"
    /\ errors # <<>>
    /\ errors[Len(errors)] = cursor_prev
    /\ cursor.bytes = cursor_prev.bytes + 2
    /\ len_utf8(typed[Len(typed)]) = 1

\* C5: a position is in the error list exactly when the typed char there does
\* not match the canonical char by the relation: equal, or straight apostrophe
\* for a curly single quote, or straight double quote for a curly double
\* quote, or space for the alternative space
C5_ErrorsAreMismatches ==
    \A i \in 1..Len(typed) :
        (\E j \in 1..Len(errors) : errors[j].chars = i - 1)
            <=> ~MatchRelation(text[i], typed[i])

\* C5 witness: a curly quote typed where a straight one is expected is an error
C5_Witness ==
    /\ lastOp = "push"
    /\ text = <<"apos">>
    /\ typed = <<"rsquo">>
    /\ errors = <<LenNew(0, 0)>>

\* C6: no operation panics
C6_NoPanic == ~panicked

\* C6 witness: word deletion of multi-byte typed chars over canonical chars of
\* another width has completed and emptied the typed buffer
C6_Witness ==
    /\ ~panicked
    /\ lastOp = "delete_word"
    /\ typed = <<>>
    /\ cursor = LenNew(0, 0)
    /\ cursor_prev.chars >= 2
    /\ cursor_prev.bytes > cursor_prev.chars

\* C7: push with the cursor at the end of the text, and pop with an empty
\* typed buffer, leave every field of the tracker unchanged
C7_BoundaryNoOps ==
    [][lastOp' \in {"push_at_end", "pop_empty"} =>
         UNCHANGED <<typed, cursor, cursor_prev, errors, deleted_errors>>]_vars

\* C7 witness: a push was made at the end of a text that was typed in full
C7_Witness ==
    /\ lastOp = "push_at_end"
    /\ text # <<>>
    /\ Len(typed) = Len(text)
    /\ cursor_prev # cursor

HelloWorldFoo ==
    <<"a", "a", "a", "a", "a", "sp", "a", "a", "a", "a", "a", "sp", "a", "a", "a">>

\* C9: delete_word_backwards removes the trailing whitespace run of the typed
\* buffer and the run of non-whitespace chars before it, rewinds cursor.chars
\* by as many and cursor.bytes by the width of the canonical chars passed;
\* of a typed "hello world foo" the walk takes three chars
C9_DeleteWordEffect ==
    [][/\ lastOp' \in {"delete_word", "delete_word_empty"} =>
            LET k == WordRun(typed)
            IN  /\ typed' = SubSeq(typed, 1, Len(typed) - k)
                /\ cursor'.chars = cursor.chars - k
                /\ cursor'.bytes = cursor.bytes
                     - ByteLen(SubSeq(text, cursor.chars - k + 1, cursor.chars))
       /\ TakeWhileWord(HelloWorldFoo, Len(HelloWorldFoo), FALSE) = 3]_vars

\* C9 witness: of three typed chars the word and the whitespace after it are
\* removed, the whitespace before the word is kept
C9_Witness ==
    /\ lastOp = "delete_word"
    /\ Len(typed) = 1
    /\ is_whitespace(typed[1])
    /\ cursor_prev.chars = 3

C11_ClearIdempotent ==
    [][lastOp' \in {"clear", "clear_again"} =>
         /\ deleted_errors' = <<>>
         /\ UNCHANGED <<typed, cursor, cursor_prev, errors>>]_vars

\* C11 witness: a second clear in a row has run on a tracker that holds typed
\* chars and errors
C11_Witness ==
    /\ lastOp = "clear_again"
    /\ deleted_errors = <<>>
    /\ errors # <<>>
    /\ cursor_prev # cursor

\* the entries of errs below the position pos, in their order
ErrorsBelow(errs, pos) == SelectSeq(errs, LAMBDA e : e.bytes < pos.bytes)

\* C28: a push leaves every entry of the error list as it was and at most
\* appends one; a pop or delete_word_backwards removes the entries at or
\* after the new cursor, which are a suffix, and leaves the others as they
\* were
C28_ErrorsAppendOnlyAndSuffixCut ==
    [][~panicked' =>
         /\ lastOp' \in {"push", "push_at_end"} =>
                \/ errors' = errors
                \/ errors' = Append(errors, cursor)
         /\ lastOp' \in {"pop", "pop_empty", "delete_word", "delete_word_empty"} =>
                /\ errors' = ErrorsBelow(errors, cursor')
                /\ errors' = SubSeq(errors, 1, Len(errors'))]_vars

\* C28 witness: a correct char was typed after a wrong one, and the error of
\* the wrong one is still in the list
C28_Witness ==
    /\ lastOp = "push"
    /\ pre_push # <<>>
    /\ pre_push[1].errors # <<>>
    /\ errors = pre_push[1].errors
    /\ cursor.chars > 1

\* the tracker is where Backend::new left it, deleted_errors aside
BackAtStart == typed = <<>> /\ cursor = LenNew(0, 0) /\ errors = <<>>

\* C31: an undo, by pop or by delete_word_backwards, reaches the empty typed
\* buffer with the cursor at (0,0) and no errors, it does not panic, and it
\* makes no more deletions than the typed buffer had chars: as many for pop
C31_UndoReachesStart ==
    /\ (args # <<>>) ~> BackAtStart
    /\ [](args # <<>> =>
             /\ ~panicked
             /\ ret[1] + Len(typed) <= args[2]
             /\ args[1] = "pop" => ret[1] + Len(typed) = args[2]
             /\ typed = <<>> => BackAtStart)

\* C31 witness: an undo by delete_word_backwards of three typed chars with
\* errors has ended after two deletions
C31_Witness ==
    /\ args = <<"delete_word_backwards", 3>>
    /\ ret = <<2>>
    /\ BackAtStart
    /\ deleted_errors # <<>>

\* typed buffer, cursor and errors after one pop on the state st, the typed
\* buffer not empty: the last typed char goes, the cursor moves back over the
\* canonical char before it, the errors at or after it go
PopOnce(st) ==
    LET goal == text[st.cursor.chars]
        c == LenNew(st.cursor.bytes - len_utf8(goal), st.cursor.chars - 1)
    IN  [typed |-> SubSeq(st.typed, 1, Len(st.typed) - 1),
         cursor |-> c,
         errors |-> ErrorsBelow(st.errors, c)]

RECURSIVE PopTimes(_, _)
\* the state after k pops
PopTimes(st, k) == IF k = 0 THEN st ELSE PopTimes(PopOnce(st), k - 1)

\* C32: a pop is PopOnce, and delete_word_backwards on a non-empty typed
\* buffer leaves typed buffer, cursor and errors as WordRun(typed) pops in a
\* row would
C32_DeleteWordIsPops ==
    /\ [][(lastOp' = "pop" /\ ~panicked') => Snapshot' = PopOnce(Snapshot)]_vars
    /\ [][(lastOp' = "delete_word" /\ typed # <<>>) =>
             /\ ~panicked'
             /\ WordRun(typed) >= 1
             /\ Snapshot' = PopTimes(Snapshot, WordRun(typed))]_vars

\* C32 witness: a word deletion has removed two typed chars, both errors, of
\* another total width than the canonical chars they stood for
C32_Witness ==
    /\ lastOp = "delete_word"
    /\ cursor_prev.chars = cursor.chars + 2
    /\ Len(deleted_errors) = 2
    /\ cursor_prev.bytes - cursor.bytes = 3
    /\ typed # <<>>

\* p is a position of the canonical text: a char boundary within it, with
\* the chars before it counted
ValidPosition(p) ==
    /\ 0 <= p.bytes
    /\ p.bytes <= ByteLen(text)
    /\ IsCharBoundary(text, p.bytes)
    /\ p.chars = Len(PrefixTo(text, p.bytes))

\* C33: the cursor, the previous cursor and every entry of errors and of
\* deleted_errors are positions of the canonical text
C33_PositionsValid ==
    /\ ValidPosition(cursor)
    /\ ValidPosition(cursor_prev)
    /\ \A k \in 1..Len(errors) : ValidPosition(errors[k])
    /\ \A k \in 1..Len(deleted_errors) : ValidPosition(deleted_errors[k])

\* C33 witness: after typing over a two-byte canonical char and deleting,
\* every one of the four holds a position past the first char
C33_Witness ==
    /\ cursor.bytes > cursor.chars
    /\ cursor_prev.bytes > cursor_prev.chars
    /\ cursor_prev # cursor
    /\ \E k \in 1..Len(errors) : errors[k].bytes > errors[k].chars
    /\ \E k \in 1..Len(deleted_errors) : deleted_errors[k].bytes > deleted_errors[k].chars

(***************************************************************************)
(* Properties of the layout.                                               *)
(***************************************************************************)
HasNewline(s) == \E i \in 1..Len(s) : s[i] = "nl"

\* the slice of a virtual line and the separator after it
LineSlice(t, vl) == Slice(t, vl.start.bytes, vl.end.bytes)
SeparatorSlice(t, vl) ==
    Slice(t, vl.end.bytes, vl.end.bytes + vl.separator_len.bytes)

RECURSIVE ConcatLines(_, _, _)
\* the slices and separators of ls[i..], one after the other
ConcatLines(t, ls, i) ==
    IF i > Len(ls)
    THEN <<>>
    ELSE LineSlice(t, ls[i]) \o SeparatorSlice(t, ls[i]) \o ConcatLines(t, ls, i + 1)

\* every line's range and separator is a slice of t, counted in chars as in
\* bytes
RangesAreSlices(t, ls) ==
    \A i \in 1..Len(ls) :
        /\ SliceOk(t, ls[i].start.bytes, ls[i].end.bytes)
        /\ SliceOk(t, ls[i].end.bytes, ls[i].end.bytes + ls[i].separator_len.bytes)
        /\ ls[i].start.chars = Len(PrefixTo(t, ls[i].start.bytes))
        /\ ls[i].end.chars = Len(PrefixTo(t, ls[i].end.bytes))
        /\ ls[i].separator_len.chars = Len(SeparatorSlice(t, ls[i]))

\* C12: the virtual lines wrap_text produced tile the text: the first starts
\* at offset 0, each next one starts at the end of the one before plus its
\* separator length, in bytes and in chars, the last ends at the end of the
\* text, and the slices of the lines, each followed by its separator, give
\* the text back
C12_LinesTileText ==
    lines # <<>> =>
        /\ lines[1].start = LenNew(0, 0)
        /\ \A i \in 2..Len(lines) :
              /\ lines[i].start.bytes =
                     lines[i - 1].end.bytes + lines[i - 1].separator_len.bytes
              /\ lines[i].start.chars =
                     lines[i - 1].end.chars + lines[i - 1].separator_len.chars
        /\ lines[Len(lines)].end = LenNew(ByteLen(text), Len(text))
        /\ RangesAreSlices(text, lines)
        /\ ConcatLines(text, lines, 1) = text

\* C12 witness: a layout of three lines with a two-byte char in the first and
\* a separator between two of them
C12_Witness ==
    /\ Len(lines) = 3
    /\ lines[1].end.bytes > lines[1].end.chars
    /\ \E i \in 1..2 : lines[i].separator_len.chars > 0

\* "ab\ncd"
AbCd == <<"a", "b", "nl", "a", "b">>

\* C13: the first virtual line has line number 0; the line after one whose
\* separator holds a newline, kind Existing, is numbered two higher, the line
\* after any other, kind Wrapped, one higher; "ab\ncd" at width 10 gives
\* lines 0 (Existing) and 2 (Eof)
C13_LineNumbers ==
    /\ lines # <<>> =>
          /\ lines[1].line = 0
          /\ \A i \in 1..(Len(lines) - 1) :
                IF HasNewline(SeparatorSlice(text, lines[i]))
                THEN /\ lines[i].linebreak = "Existing"
                     /\ lines[i + 1].line = lines[i].line + 2
                ELSE /\ lines[i].linebreak = "Wrapped"
                     /\ lines[i + 1].line = lines[i].line + 1
          /\ \A i, j \in 1..Len(lines) : i < j => lines[i].line < lines[j].line
    /\ \A r \in wrap_text(AbCd, 10) :
          /\ ~r.panic
          /\ Len(r.lines) = 2
          /\ r.lines[1].line = 0 /\ r.lines[1].linebreak = "Existing"
          /\ r.lines[2].line = 2 /\ r.lines[2].linebreak = "Eof"

\* C13 witness: a layout with a paragraph break and then a wrap
C13_Witness ==
    /\ Len(lines) = 3
    /\ lines[1].linebreak = "Existing"
    /\ lines[2].linebreak = "Wrapped"
    /\ lines[3].line = 3

\* textwrap's fast path: a single line shorter than the width
FitsUnwrapped(t, w) == ~HasNewline(t) /\ ByteLen(t) < w

\* the layout of one entry that covers the whole of t
WholeTextLine(t) ==
    <<VirtualLine(0, LenNew(0, 0), LenNew(ByteLen(t), Len(t)), LenNew(0, 0), "Eof")>>

\* C14: the layout ends with one Eof entry, the last, with a zero-length
\* separator and reaching the end of the text; no other entry is Eof; a text
\* that is not wrapped, the empty one included, gives the single Eof line
\* over the whole text
C14_SingleEof ==
    /\ lines # <<>> =>
          /\ lines[Len(lines)].linebreak = "Eof"
          /\ lines[Len(lines)].separator_len = LenNew(0, 0)
          /\ lines[Len(lines)].end = LenNew(ByteLen(text), Len(text))
          /\ \A i \in 1..(Len(lines) - 1) : lines[i].linebreak # "Eof"
          /\ FitsUnwrapped(text, width) => lines = WholeTextLine(text)
    /\ \A wrapped \in Wraps(text, width) :
          Len(wrapped) <= 1 =>
              wrap_text_of(text, wrapped) =
                  [panic |-> FALSE, lines |-> WholeTextLine(text)]
    /\ wrap_text_of(<<>>, <<>>).lines = WholeTextLine(<<>>)

\* C14 witness: a layout whose Eof entry follows other lines and covers a
\* tail that ends in a space
C14_Witness ==
    /\ Len(lines) >= 2
    /\ lines[Len(lines)].linebreak = "Eof"
    /\ lines[Len(lines)].end.chars > lines[Len(lines)].start.chars
    /\ text[Len(text)] = "sp"

\* the chars of lines[i], its separator excluded
LineChars(i) == lines[i].end.chars - lines[i].start.chars

\* whether char index p of the text, counted from 1, is a whitespace char
IsSpaceAt(p) == p \in 1..Len(text) /\ text[p] \in {"sp", "nl"}

\* the length of the word around the boundary after char index p: the run
\* of chars that are no whitespace
WordAround(p) ==
    Cardinality({q \in 1..Len(text) :
                    \A r \in (IF q <= p THEN q..p ELSE (p + 1)..q) : ~IsSpaceAt(r)})

\* the separator of lines[i] is a run of whitespace chars of the text
SeparatorIsWhitespace(i) ==
    \A p \in (lines[i].end.chars + 1)..(lines[i].end.chars + lines[i].separator_len.chars) :
        IsSpaceAt(p)

C30_OffsetsFromBookkeeping ==
    (lines # <<>> \/ panicked) =>
        \E r \in wrap_text(text, width) :
            /\ r.panic = panicked
            /\ ~r.panic => r.lines = lines

(***************************************************************************)
(* Properties of the renderer and of the session.                          *)
(***************************************************************************)
\* whether the range of lines[i], its end included, holds the char index c
Contains(i, c) == lines[i].start.chars <= c /\ c <= lines[i].end.chars

\* the first virtual line that holds the char index c, counted from 1
LineOf(c) ==
    CHOOSE i \in 1..Len(lines) :
        Contains(i, c) /\ \A j \in 1..(i - 1) : ~Contains(j, c)

\* the line number of the cursor's line less that of the line rendered last
ScrollDelta == lines[LineOf(cursor.chars)].line - lines[previous_line + 1].line

\* a render pass of chapter mode runs to its end in this step
RenderPassEnds == pc = "render" /\ state = "Chapter" /\ pc' = "read"

C16_FullRepaint ==
    [][/\ RenderPassEnds /\ frame.mode = "ChapterSelect" => frame'.path = "full"
       /\ RenderPassEnds /\ frame'.path = "full" =>
              /\ needs_full_render \/ Abs(ScrollDelta) > U16Max
              /\ ~needs_full_render'
       /\ state = "Chapter" /\ ~needs_full_render => ~needs_full_render']_vars

\* C16 witness: the first pass of a chapter with text has run, as a full
\* repaint
C16_Witness ==
    /\ pc = "read"
    /\ state = "Chapter"
    /\ frame.mode = "ChapterSelect"
    /\ frame.path = "full"
    /\ ~needs_full_render
    /\ Len(lines) > 1

\* C17: when a render pass of chapter mode has ended, full or incremental,
\* the terminal cursor is in the column of the anchor plus the cursor's char
\* offset from the start of its virtual line, and in the row of the anchor
C17_CursorAtAnchorRow ==
    pc = "read" /\ frame.path \in {"full", "incremental"} =>
        /\ term.cursor[1] =
               (ViewWidth \div 2 - width \div 2)
                   + (cursor.chars - lines[LineOf(cursor.chars)].start.chars)
        /\ term.cursor[2] = ViewHeight \div 2

\* C17 witness: the cursor is one char into the second line or a later one
C17_Witness ==
    /\ pc = "read"
    /\ frame.path = "incremental"
    /\ previous_line > 0
    /\ term.cursor = <<content_starting_col + 1, middle_row>>

\* the process has ended
Ended == pc \in {"ok", "io_error", "panic"}

\* C18: after enter has put the terminal into raw mode, however the program
\* ends, by a normal exit, an I/O error or a panic, the cleanup has run, and
\* once
C18_CleanupOnEveryExit ==
    Ended /\ term.acquired => term.cleanups = 1

\* the calls on the tracker that a key makes
TrackerOps ==
    {"push", "push_at_end", "pop", "pop_empty", "delete_word", "delete_word_empty"}

\* the keys ChapterDisplay::handle_input has an arm for
BoundCodes == {"Char", "Enter", "Backspace"}

\* C19 as stated: when the next key is read, the key before it has had one
\* tracker mutation and then one render pass
C19_OneMutationPerKey ==
    pc = "read" /\ frame.key.code # "none" =>
        frame.calls = 1 /\ frame.renders = 1

\* C19: a key other than Esc has had one render pass when the next key is
\* read, and none before handle_input is through; handle_input has made one
\* call on the tracker for a char key, Enter, Backspace or Ctrl+w in chapter
\* mode and none for any other key or in chapter select; Esc gets neither a
\* call nor a render pass
C19_AtMostOneCallThenRender ==
    /\ pc = "read" /\ frame.key.code # "none" => frame.renders = 1
    /\ pc = "render" => frame.renders = 0 /\ frame.key.code \notin {"none", "Esc"}
    /\ pc \in {"read", "render"} /\ frame.key.code # "none" =>
           frame.calls =
               IF frame.mode = "Chapter" /\ frame.key.code \in BoundCodes
               THEN 1 ELSE 0
    /\ pc = "render" => (frame.calls = 1 <=> lastOp \in TrackerOps)
    /\ pc = "exit" =>
           frame.key.code = "Esc" /\ frame.calls = 0 /\ frame.renders = 0

\* C19 witness: a key with no binding, read in chapter mode after typed
\* chars, has been rendered with no call on the tracker
C19_Witness ==
    /\ pc = "read"
    /\ frame.key.code = "F1"
    /\ frame.mode = "Chapter"
    /\ frame.calls = 0
    /\ frame.renders = 1
    /\ typed # <<>>

\* C20: a render pass of chapter mode that has ended, incremental or full,
\* has called clear_per_update_data once, and deletedErrors is empty when
\* the next key is handled
C20_ClearOncePerPass ==
    pc = "read" /\ frame.path \in {"full", "incremental"} =>
        frame.clears = 1 /\ deleted_errors = <<>>

\* the render pass about to run follows one push or one pop
AfterPushOrPop ==
    /\ pc = "render"
    /\ state = "Chapter"
    /\ lastOp \in {"push", "push_at_end", "pop", "pop_empty"}

IncrementalPassEnds == RenderPassEnds /\ frame'.path = "incremental"

\* the key of the pass was a push that recorded a new error
PushedNewError ==
    /\ frame.calls = 1
    /\ lastOp = "push"
    /\ pre_push # <<>>
    /\ Len(errors) = Len(pre_push[1].errors) + 1

\* the draws of an overlay made in error style
ErrorDraws(ov) == {k \in 1..Len(ov) : ov[k].error}

\* the glyphs a draw wrote: the chars of the line and the linebreak glyph
GlyphCount(d) ==
    Len(d.glyphs) + (IF d.terminator \in {"Existing", "Wrapped"} THEN 1 ELSE 0)

\* the virtual line, counted from 1, whose chars and separator hold position e
LineWithSeparatorOf(e) ==
    CHOOSE i \in 1..Len(lines) :
        /\ lines[i].start.chars <= e.chars
        /\ e.chars < lines[i].end.chars + lines[i].separator_len.chars

\* the row of lines[i] in the pass: the cursor's line is at the anchor row
RowInPass(i) == lines[i].line - lines[LineOf(cursor.chars)].line + middle_row

\* the overlay ov drew one glyph in error style, that of the newest error
DrewNewestError(ov) ==
    \E k \in 1..Len(ov) :
        LET e == errors[Len(errors)]
            i == LineWithSeparatorOf(e)
        IN  /\ ErrorDraws(ov) = {k}
            /\ GlyphCount(ov[k]) = 1
            /\ ov[k].row = RowInPass(i)
            /\ ov[k].col = content_starting_col + e.chars - lines[i].start.chars

\* C24: in an incremental pass a glyph is drawn in error style exactly when
\* the key was a push that recorded a new error, and then it is one glyph, at
\* the position of the newest error on the row of its line
C24_ErrorStyleOnlyForNewError ==
    [][IncrementalPassEnds =>
         /\ (ErrorDraws(frame'.overlay) # {}) <=> PushedNewError
         /\ PushedNewError => DrewNewestError(frame'.overlay)]_vars

\* C24, for the passes whose key made a call on the tracker that moved the cursor
C24_ErrorStyleAfterTrackerCall ==
    [][(IncrementalPassEnds /\ frame.calls = 1 /\ lastOp # "push_at_end") =>
         /\ (ErrorDraws(frame'.overlay) # {}) <=> PushedNewError
         /\ PushedNewError => DrewNewestError(frame'.overlay)]_vars

\* the column and row at which the pass shows position e of the text
CellOf(e) ==
    LET i == LineWithSeparatorOf(e)
    IN  <<content_starting_col + e.chars - lines[i].start.chars, RowInPass(i)>>

\* C25: the incremental pass after a pop or a delete_word_backwards draws
\* every position of deleted_errors once, one glyph in plain style at the
\* column and row of the position, and the overlay draws nothing else
C25_DeletedErrorsRedrawnPlain ==
    [][(IncrementalPassEnds /\ frame.calls = 1
            /\ lastOp \in {"pop", "pop_empty", "delete_word", "delete_word_empty"}) =>
         LET ov == frame'.overlay
         IN  /\ Len(ov) = Len(deleted_errors)
             /\ \A k \in 1..Len(ov) : ~ov[k].error /\ GlyphCount(ov[k]) = 1
             /\ {<<ov[k].col, ov[k].row>> : k \in 1..Len(ov)}
                    = {CellOf(deleted_errors[k]) : k \in 1..Len(deleted_errors)}
             /\ Cardinality({CellOf(deleted_errors[k]) : k \in 1..Len(deleted_errors)})
                    = Len(deleted_errors)]_vars

\* C25 witness: a Ctrl+w that removed two errors has been followed by a pass
\* that drew two glyphs in plain style
C25_Witness ==
    /\ pc = "read"
    /\ frame.path = "incremental"
    /\ frame.key.mods = {"CONTROL"}
    /\ Len(frame.overlay) = 2
    /\ \A k \in 1..2 : ~frame.overlay[k].error
    /\ errors = <<>>

\* the rows a scroll of delta lines uncovers: the bottom rows after a scroll
\* up, the top rows after a scroll down
UncoveredRows(delta) ==
    IF delta > 0
    THEN (screen_height - delta)..(screen_height - 1)
    ELSE 0..(-delta - 1)

\* the lines of the pass are drawn on the rows the scroll has uncovered only
ExposedOnUncoveredRows ==
    \A k \in 1..Len(frame'.exposed) :
        frame'.exposed[k].row \in UncoveredRows(ScrollDelta)

\* the key of the pass removed an error
RemovedError == frame.calls = 1 /\ deleted_errors # <<>>

\* C26: an incremental pass writes text on the rows uncovered by the scroll
\* and at the positions of the overlay only; with the cursor on the same
\* virtual line and no error recorded or removed by the key it writes no
\* glyph
C26_WritesOnlyTheDelta ==
    [][IncrementalPassEnds =>
         /\ ExposedOnUncoveredRows
         /\ (ScrollDelta = 0 /\ ~PushedNewError /\ ~RemovedError) =>
                frame'.exposed = <<>> /\ frame'.overlay = <<>>]_vars

\* C26, first half: the rows drawn besides the overlay are the uncovered ones
C26_ExposedRowsOnly ==
    [][IncrementalPassEnds => ExposedOnUncoveredRows]_vars

\* a pass of chapter mode has ended and the next key is not yet read
PassCompleted ==
    pc = "read" /\ state = "Chapter" /\ frame.path \in {"full", "incremental"}

\* C35: after every render pass of chapter mode that has ended, full or
\* incremental, previous_line is the index of the line that holds the cursor
C35_PreviousLineIsCursorLine ==
    PassCompleted =>
        /\ previous_line < Len(lines)
        /\ Contains(previous_line + 1, cursor.chars)

\* C34: when a pass of chapter mode begins, the line to_virtual chooses for
\* the cursor holds the cursor among its chars or its separator, so the
\* column does not underflow
C34_CursorLineHoldsCursor ==
    (pc = "render" /\ state = "Chapter") =>
        LET y == char_index_to_virtual_line(cursor.chars)
        IN  /\ y < Len(lines)
            /\ lines[y + 1].start.chars <= cursor.chars
            /\ cursor.chars <= lines[y + 1].end.chars + lines[y + 1].separator_len.chars
            /\ ~to_virtual(cursor.chars).panic

(***************************************************************************)
(* Properties of the traversal of a chapter.                               *)
(***************************************************************************)
\* C40: once traverse_body has come to the element whose id is the end
\* fragment, wherever it is in the tree, the callback gets no Text,
\* Linebreak or Image any more: the bail is the last entry of the log
C40_NothingAfterTheEnd ==
    ret # <<>> =>
        \A k \in 1..Len(ret[1]) : ret[1][k].kind = "bail" => k = Len(ret[1])

(***************************************************************************)
(* Properties of the key map of chapter mode.                              *)
(***************************************************************************)
\* the tracker as the text, the typed chars, the cursors and the errors
TrackerState == <<text, typed, cursor, cursor_prev, errors, deleted_errors>>

\* push(c) has been called in this step
CalledPush(c) ==
    /\ lastOp' \in {"push", "push_at_end"}
    /\ lastOp' = "push" => typed' = Append(typed, c)
    /\ lastOp' = "push_at_end" => TrackerState' = TrackerState

\* the cursor is at the separator of a wrapped break of one space
AtOneSpaceWrappedBreak ==
    \E i \in 1..Len(lines) :
        /\ lines[i].linebreak = "Wrapped"
        /\ lines[i].separator_len.chars = 1
        /\ lines[i].end.chars = cursor.chars

\* the canonical char at the cursor is c
CanonicalIs(c) ==
    /\ cursor.bytes < ByteLen(text)
    /\ Head(SuffixFrom(text, cursor.bytes)) = c

\* the step is the end of a pass, with no key handled
PassEndsOnly == frame' = frame /\ lastOp' \in {"clear", "clear_again"}

\* C37 witness: w with CONTROL and SHIFT has been pushed as a char after a
\* space typed with no error at a wrapped break of one space
C37_Witness ==
    /\ frame.key = KeyWith("Char", "w", {"CONTROL", "SHIFT"})
    /\ lastOp = "push"
    /\ Len(typed) >= 2
    /\ typed[Len(typed)] = "w"
    /\ typed[Len(typed) - 1] = "sp"
    /\ \E i \in 1..Len(lines) :
           /\ lines[i].linebreak = "Wrapped"
           /\ lines[i].separator_len.chars = 1
           /\ lines[i].end.chars = cursor.chars - 2
    /\ \A k \in 1..Len(errors) : errors[k].chars # cursor.chars - 2

\* C37: Backspace or w with CONTROL as the only modifier calls
\* delete_word_backwards; any other Backspace calls pop; Enter calls
\* push of a newline; any other char key calls push of its char; any other
\* key leaves the tracker as it is.  Enter at a paragraph break of the text
\* and space at a wrapped break of one space add no error
C37_KeyMap ==
    [][~PassEndsOnly =>
         LET e == frame'.key
         IN  /\ CASE e.code \in {"Backspace", "Char"} /\ e.mods = {"CONTROL"}
                      /\ (e.code = "Char" => e.char = "w") ->
                        lastOp' \in {"delete_word", "delete_word_empty"}
                   [] e.code = "Backspace" -> lastOp' \in {"pop", "pop_empty"}
                   [] e.code = "Enter" -> CalledPush("nl")
                   [] e.code = "Char" -> CalledPush(e.char)
                   [] OTHER -> backend_vars' = backend_vars
             /\ (e.code = "Enter" /\ CanonicalIs("nl")) => errors' = errors
             /\ (e.code = "Char" /\ e.char = "sp" /\ AtOneSpaceWrappedBreak) =>
                    CanonicalIs("sp") /\ errors' = errors]_vars

(***************************************************************************)
(* Properties of the modes of the display.                                 *)
(***************************************************************************)
\* handle_input has returned in this step, with the key frame'.key
KeyHandled == pc = "read" /\ pc' \in {"render", "exit"}

SelectDrawBegins == state = "ChapterSelect" /\ pc \in {"enter", "render"}

\* C38: the selected index is from 0 to chapter_count - 1, 0 for a book of
\* no chapters, and the draw of the chapter list gives chapter_by_toc_index
\* indexes below chapter_count only, so that no unwrap panics
C38_ChapterIndexesValid ==
    /\ chapter <= saturating_sub(chapter_count, 1)
    /\ SelectDrawBegins =>
           /\ \A k \in 1..Len(full_render_select.calls) :
                  full_render_select.calls[k] < chapter_count
           /\ ~full_render_select.panic

\* C38, the part on the keys: the selected index never leaves the range
C38_SelectedIndexInRange == chapter <= saturating_sub(chapter_count, 1)

(***************************************************************************)
(* Properties of screen_lines.                                             *)
(***************************************************************************)
\* the row of lines[i]: its line number less that of the cursor's line, plus
\* the anchor row
RowOf(i) == lines[i].line - lines[LineOf(cursor.chars)].line + middle_row

\* the lines whose row lies in lo..hi clipped to the screen, in order, each
\* with its row
LinesInRows(lo, hi) ==
    LET shown == {i \in 1..Len(lines) :
                     /\ lo <= RowOf(i) /\ RowOf(i) < hi
                     /\ 0 <= RowOf(i) /\ RowOf(i) < screen_height}
        ordered == CHOOSE f \in [1..Cardinality(shown) -> shown] :
                       \A j, k \in 1..Cardinality(shown) : j < k => f[j] < f[k]
    IN  [k \in 1..Cardinality(shown) |-> [idx |-> ordered[k] - 1, row |-> RowOf(ordered[k])]]

\* screen_lines was asked for a row range, with the cursor on a line
ScreenLinesReturned ==
    /\ ret # <<>>
    /\ ~ret.panic
    /\ \E i \in 1..Len(lines) : Contains(i, cursor.chars)

C23_ScreenLinesOfRangeOnScreen ==
    (ScreenLinesReturned /\ args[1] < screen_height) =>
        ret.lines = LinesInRows(args[1], args[2])

\* a range that starts on the screen returns the cursor's line at the anchor row
C23_Witness ==
    /\ ScreenLinesReturned
    /\ args[1] < screen_height
    /\ Len(lines) > 1
    /\ cursor.chars > 0
    /\ \E k \in 1..Len(ret.lines) :
          ret.lines[k] = [idx |-> LineOf(cursor.chars) - 1, row |-> middle_row]

(***************************************************************************)
(* Properties of the attribute commands.                                   *)
(***************************************************************************)
\* where the bytes of run k are written in the commands out; 0 for k = 0
WriteAt(out, k) ==
    IF k = 0 THEN 0
    ELSE CHOOSE p \in 1..Len(out) : out[p].cmd = "Write" /\ out[p].run = k

\* the attributes set before run k, after the run before it
AttributesBefore(out, k) ==
    [j \in 1..(WriteAt(out, k) - WriteAt(out, k - 1) - 1) |->
        out[WriteAt(out, k - 1) + j].attr]

\* the attributes in seq: each once, and together the set attrs
ExactlyOnce(seq, attrs) ==
    {seq[j] : j \in 1..Len(seq)} = attrs /\ Len(seq) = Cardinality(attrs)

\* the turn-off or turn-on attributes of the bold and italic flags in s
BoldItalic(s, bold, italic) ==
    (IF "BOLD" \in s THEN {bold} ELSE {}) \cup (IF "ITALIC" \in s THEN {italic} ELSE {})

\* C27: before a run the attributes set are the turn-offs of the bold and
\* italic flags the run drops and the turn-ons of those it adds, from the
\* empty style on, none for an unchanged style; Reset is set once, last,
\* also for the empty range
C27_AttributesOnlyOnChange ==
    ret # <<>> =>
        /\ \A k \in 1..Len(args) :
              LET prev == IF k = 1 THEN {} ELSE args[k - 1]
              IN  ExactlyOnce(AttributesBefore(ret, k),
                      BoldItalic(prev \ args[k], "NormalIntensity", "NoItalic")
                          \cup BoldItalic(args[k] \ prev, "Bold", "Italic"))
        /\ Cardinality({p \in 1..Len(ret) : ret[p].cmd = "Write"}) = Len(args)
        /\ ret[Len(ret)] = SetAttribute("Reset")
        /\ Cardinality({p \in 1..Len(ret) : ret[p].attr = "Reset"}) = 1

\* C27 witness: a range of three runs, bold, bold and italic: nothing is set
\* before the second, bold is turned off and italic on before the third
C27_Witness ==
    /\ args = <<{"BOLD"}, {"BOLD"}, {"ITALIC"}>>
    /\ ret # <<>>
    /\ AttributesBefore(ret, 2) = <<>>
    /\ AttributesBefore(ret, 3) = <<"NormalIntensity", "Italic">>

(***************************************************************************)
(* Properties of Len.                                                      *)
(***************************************************************************)
\* C21: a < b exactly when a.bytes < b.bytes, a == b exactly when
\* a.bytes = b.bytes, and a == b exactly when neither a < b nor b < a
C21_EqualityByBytes ==
    ret # <<>> =>
        /\ ret.lt <=> args[1].bytes < args[2].bytes
        /\ ret.eq <=> args[1].bytes = args[2].bytes
        /\ ret.eq <=> (~ret.lt /\ ~ret.gt)

====
